---- MODULE Spec2Model ----
(***************************************************************************)
(* The Telda-2 linker `tl` (src/src/bin/tl.rs, tl_main) as a state machine. *)
(*                                                                         *)
(* One run of tl_main is: segment layout, one merge step per input object  *)
(* (entry propagation, symbol rewriting, relocation re-keying, byte        *)
(* concatenation), final resolution of the undefined references, the -E    *)
(* override, and emission of the output file.                              *)
(*                                                                         *)
(* Conventions.  Rust vectors are TLA+ sequences, so every index stored in *)
(* the model (symbol_index, the values of global_symbols, the entries of   *)
(* file_symbol_to_out_symbol) is the Rust index plus one.  Strings that    *)
(* the code takes apart (symbol names, the -E argument) are sequences of   *)
(* one-character strings.  A BTreeMap/HashMap is a function whose DOMAIN   *)
(* is the set of keys.  u16 arithmetic is computed modulo 2^16.            *)
(*                                                                         *)
(* The second half models pass 1 of the assembler (src/src/source.rs):     *)
(* process/inner_process with .include, the operand parsers, the encoding  *)
(* of BigR fields, and write_data_operand.  SpecBigR parses and encodes    *)
(* one instruction; SpecAsm processes and encodes a small unit.            *)
(***************************************************************************)
EXTENDS Integers, Sequences, FiniteSets, TLC

VARIABLES
    \* ---- the linker run (Spec) ----
    objects,               \* the input objects, in command-line order
    executable,            \* -e
    strip_internal,        \* -S
    set_entry,             \* -E argument, or None
    pc,                    \* position in tl_main
    i,                     \* next input of the merge loop (1-based)
    segs_out,              \* output segments: type -> [start, bytes]
    segs,                  \* merge-loop view of segs_out: type -> running start
    global_symbols,        \* global name -> index in symbols_out
    symbols_out,           \* merged symbol table
    reloc_out,             \* merged relocation table
    undefined_references,  \* relocations whose symbol was Unknown when seen
    entry_point,           \* Option<Entry>
    failure,               \* the accumulated failure flag
    stderr,                \* the diagnostics printed so far
    result,                \* how tl_main ended
    out_file,              \* the file written, or None
    file_symbol_to_out_symbol, \* the translation array of the input merged last
    \* ---- the layout block alone, with payloads abstracted to lengths (SpecLayout) ----
    lay,
    \* ---- two-level links of three objects (SpecAssoc) ----
    assoc,
    \* ---- one operand through the assembler's two passes (SpecBigR) ----
    enc,
    \* ---- one compilation unit through the assembler (SpecAsm) ----
    asm

vars == <<objects, executable, strip_internal, set_entry, pc, i, segs_out, segs,
          global_symbols, symbols_out, reloc_out, undefined_references,
          entry_point, failure, stderr, result, out_file,
          file_symbol_to_out_symbol, lay, assoc, enc, asm>>

linkvars == <<objects, executable, strip_internal, set_entry, pc, i, segs_out, segs,
              global_symbols, symbols_out, reloc_out, undefined_references,
              entry_point, failure, stderr, result, out_file,
              file_symbol_to_out_symbol>>

-----------------------------------------------------------------------------
(* Basic values *)

\* Option<T>: None is the empty sequence, Some(x) the sequence of x alone.
None == <<>>

Some(x) == <<x>>

\* u16
M16 == 65536

Add16(a, b) == (a + b) % M16

Sub16(a, b) == (a - b + M16) % M16

Max(a, b) == IF a >= b THEN a ELSE b

\* telda2::SEGMENT_ALIGNMENT (lib.rs, not among the sources): a power of two.
SEGMENT_ALIGNMENT == 256

\* telda2::align (lib.rs, not among the sources): round n up to a multiple of a.
\* The unwrapped value; callers reduce it to 16 bits.
align(n, a) == ((n + a - 1) \div a) * a

\* telda2::aalv::obj::SegmentType, in the order of its Ord instance (the
\* iteration order of the BTreeMaps keyed by it).
SegOrder == <<"Unknown", "Zero", "Text", "RoData", "Data", "Bss">>

SegmentType == {SegOrder[k] : k \in 1..Len(SegOrder)}

SegKey(st) == CHOOSE k \in 1..Len(SegOrder) : SegOrder[k] = st

EmptyMap == [x \in {} |-> 0]

\* u16::to_le_bytes
to_le_bytes(n) == <<n % 256, (n \div 256) % 256>>

-----------------------------------------------------------------------------
(* Segment layout: tl.rs lines 93-116 *)

\* lines 96-102: the per-type sum of the payload lengths, as u16.  lens is the
\* sequence over the inputs of (type -> payload length).  ovf: some += left
\* the 16-bit range.
RECURSIVE SumLengths(_, _)
SumLengths(lens, st) ==
    IF lens = <<>> THEN 0
    ELSE (IF st \in DOMAIN Head(lens) THEN Head(lens)[st] ELSE 0)
         + SumLengths(Tail(lens), st)

LengthKeys(lens) == UNION {DOMAIN lens[k] : k \in 1..Len(lens)}

Lengths(lens) == [st \in LengthKeys(lens) |-> SumLengths(lens, st) % M16]

LengthsOverflow(lens) == \E st \in LengthKeys(lens) : SumLengths(lens, st) >= M16

\* The mutant of PlaceSegments: the running mark is used as the base without
\* rounding it up.
RECURSIVE PlaceSegmentsUnaligned(_, _, _, _)
PlaceSegmentsUnaligned(k, lengths, last_end, acc) ==
    IF k > Len(SegOrder) THEN acc
    ELSE IF SegOrder[k] \notin DOMAIN lengths
         THEN PlaceSegmentsUnaligned(k + 1, lengths, last_end, acc)
    ELSE LET st == SegOrder[k]
             start == last_end
             endw == start + lengths[st]
         IN PlaceSegmentsUnaligned(k + 1, lengths, endw % M16,
                [start |-> acc.start @@ (st :> start),
                 ovf |-> acc.ovf \/ endw >= M16])

\* lines 106-110: the loop over the remaining lengths in key order.
\* acc.start: type -> base; acc.ovf: align or start + size left the 16-bit range.
RECURSIVE PlaceSegments(_, _, _, _)
PlaceSegments(k, lengths, last_end, acc) ==
    IF k > Len(SegOrder) THEN acc
    ELSE IF SegOrder[k] \notin DOMAIN lengths
         THEN PlaceSegments(k + 1, lengths, last_end, acc)
    ELSE LET st == SegOrder[k]
             startw == align(last_end, SEGMENT_ALIGNMENT)
             start == startw % M16
             endw == start + lengths[st]
         IN PlaceSegments(k + 1, lengths, endw % M16,
                [start |-> acc.start @@ (st :> start),
                 ovf |-> acc.ovf \/ startw >= M16 \/ endw >= M16])

\* lines 96-111.  start: the base of every output segment; ovf: whether any
\* u16 operation of the block overflowed (a panic when the build checks
\* overflow, a wrapped value when it does not).
Layout(lens) ==
    LET lengths == Lengths(lens)
        zero == IF "Zero" \in DOMAIN lengths THEN lengths["Zero"] ELSE 0
        last_end == Max(zero, SEGMENT_ALIGNMENT)
        rest == [st \in (DOMAIN lengths) \ {"Zero"} |-> lengths[st]]
        placed == PlaceSegments(1, rest, last_end, [start |-> EmptyMap, ovf |-> FALSE])
    IN [start |-> placed.start, ovf |-> placed.ovf \/ LengthsOverflow(lens)]

\* line 222, seg.0 += bytes.len() as u16, for every segment of one input:
\* the running start of the merge loop's view.
AdvanceBases(ins, objlens) ==
    [st \in DOMAIN ins |->
        IF st \in DOMAIN objlens THEN Add16(ins[st], objlens[st]) ELSE ins[st]]

-----------------------------------------------------------------------------
(* The layout block on its own: SpecLayout.  Payloads are abstracted to    *)
(* their lengths, so that lengths near 2^16 are within reach.              *)

MaxLayInputs == 2

\* The payload lengths an input may give each segment type (None: the input
\* has no segment of the type).
LayChoices ==
    [Zero : {None, Some(300)}, Text : {None, Some(1), Some(65000)},
     Data : {None, Some(300)}, Bss : {None, Some(1)}]

LayTypeOf == [Zero |-> "Zero", Text |-> "Text", Data |-> "Data", Bss |-> "Bss"]

LayLensOf(c) ==
    [st \in {LayTypeOf[f] : f \in {g \in DOMAIN c : c[g] # None}} |->
        c[CHOOSE f \in DOMAIN c : LayTypeOf[f] = st][1]]

LayInputs == {LayLensOf(c) : c \in LayChoices}

LayIdle == [pc |-> "idle"]

AssocIdle == [pc |-> "idle"]

EncIdle == [pc |-> "idle"]

AsmIdle == [pc |-> "idle"]

\* overflow_checks: whether the build panics on integer overflow (a debug
\* build) or wraps (a release build).
LayStart ==
    \E n \in 1..MaxLayInputs : \E ls \in [1..n -> LayInputs] : \E oc \in BOOLEAN :
        lay = [pc |-> "layout", lens |-> ls, overflow_checks |-> oc,
               start |-> EmptyMap, ins |-> EmptyMap, k |-> 1]

\* lines 93-116
LayLayout ==
    /\ lay.pc = "layout"
    /\ LET l == Layout(lay.lens)
       IN IF l.ovf /\ lay.overflow_checks
          THEN lay' = [lay EXCEPT !.pc = "panic"]
          ELSE lay' = [lay EXCEPT !.pc = "merge", !.start = l.start, !.ins = l.start]
    /\ UNCHANGED <<linkvars, assoc, enc, asm>>

\* lines 220-224, for one input: only the merge loop's running start moves.
LayMerge ==
    /\ lay.pc = "merge"
    /\ lay.k <= Len(lay.lens)
    /\ IF \E st \in DOMAIN lay.lens[lay.k] : st \notin DOMAIN lay.ins
       THEN lay' = [lay EXCEPT !.pc = "panic"]
       ELSE lay' = [lay EXCEPT !.ins = AdvanceBases(lay.ins, lay.lens[lay.k]),
                               !.k = lay.k + 1]
    /\ UNCHANGED <<linkvars, assoc, enc, asm>>

LayDone ==
    /\ lay.pc = "merge"
    /\ lay.k > Len(lay.lens)
    /\ lay' = [lay EXCEPT !.pc = "done"]
    /\ UNCHANGED <<linkvars, assoc, enc, asm>>

-----------------------------------------------------------------------------
(* Objects: telda2::aalv::obj::Object as tl.rs uses it *)

Unknown == "Unknown"

\* SymbolDefinition { name, segment_type, location, is_global }
Sym(name, st, loc, g) ==
    [name |-> name, segment_type |-> st, location |-> loc, is_global |-> g]

\* RelocationEntry { reference_location, reference_segment, symbol_index }
Rel(st, loc, idx) ==
    [reference_location |-> loc, reference_segment |-> st, symbol_index |-> idx]

\* one value of Object::segs: (start, bytes)
Seg(start, bytes) == [start |-> start, bytes |-> bytes]

\* Entry(segment_type, offset)
Entry(st, ep) == [segment_type |-> st, offset |-> ep]

Obj(sg, en, sy, re) ==
    [segs |-> sg, entry |-> en, symbols |-> sy, relocation_table |-> re]

\* The payload lengths of a list of objects, as the layout block reads them
\* (line 100, v.len() as u16).
ObjLens(objs) ==
    [k \in 1..Len(objs) |->
        [st \in DOMAIN objs[k].segs |-> Len(objs[k].segs[st].bytes) % M16]]

\* dst[index..index + 2].copy_from_slice(two), index counted from 0
copy_from_slice(dst, index, two) ==
    SubSeq(dst, 1, index) \o two \o SubSeq(dst, index + 3, Len(dst))

-----------------------------------------------------------------------------
(* The per-object merge: tl.rs lines 129-225 *)

\* The mutant of propagate_entry: the entry offset is rebased against the
\* final base of the output segment, not the running insertion base.
propagate_entry_final_base(cur, obj, ins, out) ==
    IF cur # None \/ obj.entry = None THEN cur
    ELSE LET e == obj.entry[1]
         IN Some(Entry(e.segment_type,
                Add16(Sub16(e.offset, obj.segs[e.segment_type].start),
                      out[e.segment_type].start)))

\* lines 130-133.  Both index expressions panic on a missing key; the caller
\* checks entry_panics first.  ins: the merge loop's running starts; out:
\* segs_out.
propagate_entry(cur, obj, ins, out) ==
    IF cur # None \/ obj.entry = None THEN cur
    ELSE LET e == obj.entry[1]
         IN Some(Entry(e.segment_type,
                Add16(Sub16(e.offset, obj.segs[e.segment_type].start),
                      ins[e.segment_type])))

entry_panics(cur, obj, ins) ==
    /\ cur = None
    /\ obj.entry # None
    /\ \/ obj.entry[1].segment_type \notin DOMAIN obj.segs
       \/ obj.entry[1].segment_type \notin DOMAIN ins

\* The mutant of rebase_symbol: the location is rebased against the final
\* base of the output segment, not the running insertion base.
rebase_symbol_final_base(symdef, obj, ins, out) ==
    LET st == symdef.segment_type
        from == IF st \in DOMAIN obj.segs THEN obj.segs[st].start ELSE 0
        to == IF st \in DOMAIN out THEN out[st].start ELSE 0
    IN [symdef EXCEPT !.location = Add16(Sub16(@, from), to)]

\* lines 142-143
rebase_symbol(symdef, obj, ins, out) ==
    LET st == symdef.segment_type
        from == IF st \in DOMAIN obj.segs THEN obj.segs[st].start ELSE 0
        to == IF st \in DOMAIN ins THEN ins[st] ELSE 0
    IN [symdef EXCEPT !.location = Add16(Sub16(@, from), to)]

\* The mutant of strip_name: every name is blanked, global or not.
strip_name_all(symdef, strip) ==
    IF strip THEN [symdef EXCEPT !.name = <<>>] ELSE symdef

\* lines 169-171: the else-branch of `if symdef.is_global`
strip_name(symdef, strip) ==
    IF ~symdef.is_global /\ strip THEN [symdef EXCEPT !.name = <<>>] ELSE symdef

\* One line of stderr.  kind "duplicate": lines 157-162, with the format
\* arguments symdef.name, input_file, symdef.location, symdef.segment_type;
\* kind "undefined": lines 237-240; kind "nostart": lines 264-265.
\* file: the position of the input on the command line (0: no file named).
Message(kind, name, file, loc, st) ==
    [kind |-> kind, name |-> name, file |-> file, location |-> loc, segment |-> st]

\* The mutant of unify_global: a definition never replaces an external that
\* an earlier input put in the table.
unify_global_no_upgrade(acc, symdef, file) ==
    LET id == acc.global_symbols[symdef.name]
        cur == acc.symbols_out[id]
    IN IF symdef.segment_type = Unknown \/ cur.segment_type = Unknown
       THEN acc
       ELSE [acc EXCEPT
               !.stderr = Append(@, Message("duplicate", symdef.name, file,
                                            symdef.location, symdef.segment_type)),
               !.failure = TRUE]

\* lines 150-165: a global whose name is already in global_symbols
unify_global(acc, symdef, file) ==
    LET id == acc.global_symbols[symdef.name]
        cur == acc.symbols_out[id]
    IN IF symdef.segment_type = Unknown THEN acc
       ELSE IF cur.segment_type = Unknown
       THEN [acc EXCEPT !.symbols_out[id] = symdef]
       ELSE [acc EXCEPT
               !.stderr = Append(@, Message("duplicate", symdef.name, file,
                                            symdef.location, symdef.segment_type)),
               !.failure = TRUE]

\* lines 138-181, one iteration.  acc: symbols_out, global_symbols, failure,
\* stderr and file_symbol_to_out_symbol (fstos).
merge_symbol(acc, symdef0, obj, ins, out, file, strip) ==
    LET next_id == Len(acc.symbols_out) + 1
        symdef == strip_name(rebase_symbol(symdef0, obj, ins, out), strip)
    IN IF symdef.is_global /\ symdef.name \in DOMAIN acc.global_symbols
       THEN [unify_global(acc, symdef, file) EXCEPT
               !.fstos = Append(@, acc.global_symbols[symdef.name])]
       ELSE [acc EXCEPT
               !.global_symbols =
                   IF symdef.is_global THEN @ @@ (symdef.name :> next_id) ELSE @,
               !.symbols_out = Append(@, symdef),
               !.fstos = Append(@, next_id)]

RECURSIVE merge_symbols(_, _, _, _, _, _, _)
merge_symbols(acc, syms, obj, ins, out, file, strip) ==
    IF syms = <<>> THEN acc
    ELSE merge_symbols(merge_symbol(acc, Head(syms), obj, ins, out, file, strip),
                       Tail(syms), obj, ins, out, file, strip)

\* The mutant of patch_bytes: the address is written big-endian.
patch_bytes_big_endian(bytes, index, location) ==
    copy_from_slice(bytes, index, <<(location \div 256) % 256, location % 256>>)

\* lines 205-206 and 250: write the 16-bit location at index, little-endian
patch_bytes(bytes, index, location) ==
    copy_from_slice(bytes, index, to_le_bytes(location))

\* The panics of one iteration of the relocation loop: the index at line 191,
\* the two map indexings at lines 193-194 (which come before the ok_or of
\* line 199), the slice at line 205.
reloc_panics(r, objsegs, ins, fstos) ==
    \/ r.symbol_index \notin 1..Len(fstos)
    \/ r.reference_segment \notin DOMAIN objsegs
    \/ r.reference_segment \notin DOMAIN ins
    \/ Sub16(r.reference_location, objsegs[r.reference_segment].start) + 2
          > Len(objsegs[r.reference_segment].bytes)

\* The mutant of merge_reloc: a relocation to a symbol that is still Unknown
\* is not remembered for the final pass.
merge_reloc_forgetful(acc, r, ins, fstos, symtab) ==
    LET symbol_index == fstos[r.symbol_index]
        st == r.reference_segment
        location_in_file == Sub16(r.reference_location, acc.objsegs[st].start)
        reference_location == Add16(location_in_file, ins[st])
        symdef == symtab[symbol_index]
        entry == Rel(st, reference_location, symbol_index)
    IN [acc EXCEPT
          !.objsegs[st].bytes = patch_bytes(@, location_in_file, symdef.location),
          !.reloc_out = Append(@, entry)]

\* lines 185-218, one iteration that does not panic.  acc: the input's own
\* segments (patched in place), reloc_out, undefined_references.
merge_reloc(acc, r, ins, fstos, symtab) ==
    LET symbol_index == fstos[r.symbol_index]
        st == r.reference_segment
        location_in_file == Sub16(r.reference_location, acc.objsegs[st].start)
        reference_location == Add16(location_in_file, ins[st])
        symdef == symtab[symbol_index]
        undefined == symdef.segment_type = Unknown
        entry == Rel(st, reference_location, symbol_index)
    IN [acc EXCEPT
          !.objsegs[st].bytes = patch_bytes(@, location_in_file, symdef.location),
          !.reloc_out = Append(@, entry),
          !.undefined_references = IF undefined THEN Append(@, entry) ELSE @]

RECURSIVE merge_relocs(_, _, _, _, _)
merge_relocs(acc, relocs, ins, fstos, symtab) ==
    IF relocs = <<>> \/ acc.panic THEN acc
    ELSE IF reloc_panics(Head(relocs), acc.objsegs, ins, fstos)
         THEN [acc EXCEPT !.panic = TRUE]
    ELSE merge_relocs(merge_reloc(acc, Head(relocs), ins, fstos, symtab),
                      Tail(relocs), ins, fstos, symtab)

\* The mutant of concat_segments: the input's payload is put in front of the
\* bytes already in the output segment.
concat_segments_prepend(out, objsegs) ==
    [st \in DOMAIN out |->
        IF st \in DOMAIN objsegs
        THEN [out[st] EXCEPT !.bytes = objsegs[st].bytes \o @]
        ELSE out[st]]

\* lines 220-224, on segs_out's payloads (seg.1.extend(bytes))
concat_segments(out, objsegs) ==
    [st \in DOMAIN out |->
        IF st \in DOMAIN objsegs
        THEN [out[st] EXCEPT !.bytes = @ \o objsegs[st].bytes]
        ELSE out[st]]

\* line 221: expect("segment guaranteed to exist")
concat_panics(ins, objsegs) == \E st \in DOMAIN objsegs : st \notin DOMAIN ins

\* The state of one run of tl_main, as a record (the variables of Spec hold
\* the same fields).
Panicked(L) == [L EXCEPT !.result = "panic"]

\* lines 93-127
layout_state(objs) ==
    LET l == Layout(ObjLens(objs))
    IN [segs_out |-> [st \in DOMAIN l.start |-> Seg(l.start[st], <<>>)],
        segs |-> l.start,
        global_symbols |-> EmptyMap,
        symbols_out |-> <<>>,
        reloc_out |-> <<>>,
        undefined_references |-> <<>>,
        entry_point |-> None,
        failure |-> FALSE,
        stderr |-> <<>>,
        file_symbol_to_out_symbol |-> <<>>,
        result |-> "running"]

\* lines 129-225, the body of the loop for the input at position file
merge_object(L, obj, file, strip) ==
    IF entry_panics(L.entry_point, obj, L.segs) THEN Panicked(L)
    ELSE
    LET ep == propagate_entry(L.entry_point, obj, L.segs, L.segs_out)
        sy == merge_symbols(
                 [symbols_out |-> L.symbols_out, global_symbols |-> L.global_symbols,
                  failure |-> L.failure, stderr |-> L.stderr, fstos |-> <<>>],
                 obj.symbols, obj, L.segs, L.segs_out, file, strip)
        re == merge_relocs(
                 [objsegs |-> obj.segs, reloc_out |-> L.reloc_out,
                  undefined_references |-> L.undefined_references, panic |-> FALSE],
                 obj.relocation_table, L.segs, sy.fstos, sy.symbols_out)
    IN IF re.panic \/ concat_panics(L.segs, re.objsegs)
       THEN Panicked([L EXCEPT !.stderr = sy.stderr])
       ELSE [L EXCEPT
               !.entry_point = ep,
               !.symbols_out = sy.symbols_out,
               !.global_symbols = sy.global_symbols,
               !.failure = sy.failure,
               !.stderr = sy.stderr,
               !.reloc_out = re.reloc_out,
               !.undefined_references = re.undefined_references,
               !.file_symbol_to_out_symbol = sy.fstos,
               !.segs = AdvanceBases(L.segs, ObjLens(<<obj>>)[1]),
               !.segs_out = concat_segments(L.segs_out, re.objsegs)]

-----------------------------------------------------------------------------
(* Final resolution: tl.rs lines 228-251 *)

\* The mutant of resolve_reference: an undefined reference is not reported
\* when an executable is made.
resolve_reference_silent(L, r, exe) ==
    LET symdef == L.symbols_out[r.symbol_index]
    IN IF symdef.segment_type = Unknown THEN L
       ELSE LET seg == L.segs_out[r.reference_segment]
                index == Sub16(r.reference_location, seg.start)
            IN [L EXCEPT !.segs_out[r.reference_segment].bytes =
                             patch_bytes(@, index, symdef.location)]

\* one iteration of the loop
resolve_reference(L, r, exe) ==
    LET symdef == L.symbols_out[r.symbol_index]
    IN IF symdef.segment_type = Unknown
       THEN IF exe
            THEN [L EXCEPT
                    !.stderr = Append(@, Message("undefined", symdef.name, 0,
                                                 symdef.location, "")),
                    !.failure = TRUE]
            ELSE L
       ELSE LET seg == L.segs_out[r.reference_segment]
                index == Sub16(r.reference_location, seg.start)
            IN [L EXCEPT !.segs_out[r.reference_segment].bytes =
                             patch_bytes(@, index, symdef.location)]

RECURSIVE resolve_references(_, _, _)
resolve_references(L, refs, exe) ==
    IF refs = <<>> THEN L
    ELSE resolve_references(resolve_reference(L, Head(refs), exe), Tail(refs), exe)

final_resolution(L, exe) == resolve_references(L, L.undefined_references, exe)

-----------------------------------------------------------------------------
(* Entry point override: tl.rs lines 253-270 *)

LowerHex == <<"0", "1", "2", "3", "4", "5", "6", "7", "8", "9",
              "a", "b", "c", "d", "e", "f">>

UpperHex == <<"0", "1", "2", "3", "4", "5", "6", "7", "8", "9",
              "A", "B", "C", "D", "E", "F">>

\* char::to_digit(16)
to_digit(c) ==
    IF \E k \in 1..16 : LowerHex[k] = c
    THEN Some((CHOOSE k \in 1..16 : LowerHex[k] = c) - 1)
    ELSE IF \E k \in 1..16 : UpperHex[k] = c
    THEN Some((CHOOSE k \in 1..16 : UpperHex[k] = c) - 1)
    ELSE None

\* the digit loop of u16::from_str_radix: None on an invalid digit or a
\* value above u16::MAX
RECURSIVE hex_digits(_, _)
hex_digits(s, acc) ==
    IF s = <<>> THEN Some(acc)
    ELSE LET d == to_digit(Head(s))
         IN IF d = None THEN None
            ELSE IF acc * 16 + d[1] >= M16 THEN None
            ELSE hex_digits(Tail(s), acc * 16 + d[1])

\* u16::from_str_radix(s, 16): Some(value), or None for Err(ParseIntError).
\* One leading "+" is accepted; the empty string and a lone sign are errors.
from_str_radix(s) ==
    LET digits == IF s # <<>> /\ Head(s) = "+" THEN Tail(s) ELSE s
    IN IF digits = <<>> THEN None ELSE hex_digits(digits, 0)

\* str::strip_prefix("0x")
strip_prefix_0x(s) ==
    IF Len(s) >= 2 /\ s[1] = "0" /\ s[2] = "x" THEN Some(SubSeq(s, 3, Len(s))) ELSE None

\* The mutant of lookup_entry: the entry takes the symbol's segment type but
\* not its location.
lookup_entry_no_location(L, name) ==
    Entry(L.symbols_out[L.global_symbols[name]].segment_type, 0)

\* lines 260-262
lookup_entry(L, name) ==
    LET sym == L.symbols_out[L.global_symbols[name]]
    IN Entry(sym.segment_type, sym.location)

\* lines 253-270; arg is the -E argument
entry_override(L, arg) ==
    LET hex == strip_prefix_0x(arg)
    IN IF hex # None
       THEN IF from_str_radix(hex[1]) = None
            THEN [L EXCEPT !.result = "InvalidEntryPointFormat"]
            ELSE [L EXCEPT !.entry_point = Some(Entry("Zero", from_str_radix(hex[1])[1]))]
       ELSE IF arg \in DOMAIN L.global_symbols
       THEN [L EXCEPT !.entry_point = Some(lookup_entry(L, arg))]
       ELSE [L EXCEPT
               !.stderr = Append(@, Message("nostart", arg, 0, 0, "")),
               !.failure = TRUE,
               !.entry_point = Some(Entry(Unknown, 65535))]

-----------------------------------------------------------------------------
(* Emission: tl.rs lines 272-306 *)

\* The object of lines 276-282
output_object(L) ==
    Obj(L.segs_out, L.entry_point, L.symbols_out, L.reloc_out)

\* The mutant of emit: the accumulated failure flag is not looked at.
emit_ignoring_failure(L, exe) ==
    IF exe /\ L.entry_point = None
    THEN [result |-> "NoEntryPoint", file |-> None]
    ELSE [result |-> "Ok",
          file |-> Some([shebang |-> exe, obj |-> output_object(L)])]

\* lines 272-306: the result of tl_main and the file written (None: no file
\* is created).  shebang: the "#!/bin/env t" line of an executable.
emit(L, exe) ==
    IF L.failure THEN [result |-> "ObjectFailure", file |-> None]
    ELSE IF exe /\ L.entry_point = None
    THEN [result |-> "NoEntryPoint", file |-> None]
    ELSE [result |-> "Ok",
          file |-> Some([shebang |-> exe, obj |-> output_object(L)])]

-----------------------------------------------------------------------------
(* The whole of tl_main as a function of its inputs *)

RECURSIVE merge_all(_, _, _, _)
merge_all(L, objs, file, strip) ==
    IF file > Len(objs) \/ L.result # "running" THEN L
    ELSE merge_all(merge_object(L, objs[file], file, strip), objs, file + 1, strip)

\* result and file of a run on objs with the flags exe (-e), strip (-S) and
\* se (-E, an Option)
link(objs, exe, strip, se) ==
    LET merged == merge_all(layout_state(objs), objs, 1, strip)
    IN IF merged.result # "running" THEN [result |-> merged.result, file |-> None]
       ELSE LET resolved == final_resolution(merged, exe)
                entered == IF se = None THEN resolved ELSE entry_override(resolved, se[1])
            IN IF entered.result # "running"
               THEN [result |-> entered.result, file |-> None]
               ELSE emit(entered, exe)

LinkIdle ==
    /\ objects = <<>> /\ executable = FALSE /\ strip_internal = FALSE
    /\ set_entry = None /\ pc = "idle" /\ i = 0
    /\ segs_out = EmptyMap /\ segs = EmptyMap /\ global_symbols = EmptyMap
    /\ symbols_out = <<>> /\ reloc_out = <<>> /\ undefined_references = <<>>
    /\ entry_point = None /\ failure = FALSE /\ stderr = <<>>
    /\ result = "running" /\ out_file = None
    /\ file_symbol_to_out_symbol = <<>>

-----------------------------------------------------------------------------
(* The inputs of a run *)

MaxInputs == 3

helper == <<"h">>

main == <<"m">>

tmp == <<"t">>

ext == <<"e">>

\* References the external global helper from its text; carries an entry point.
Caller ==
    Obj(("Text" :> Seg(0, <<0, 0, 193>>)),
        Some(Entry("Text", 2)),
        <<Sym(helper, Unknown, 0, TRUE)>>,
        <<Rel("Text", 0, 1)>>)

\* Defines the global helper in its text and refers to it from its data.
Callee ==
    Obj(("Text" :> Seg(256, <<208, 209>>)) @@ ("Data" :> Seg(512, <<1, 1, 213>>)),
        None,
        <<Sym(helper, "Text", 257, TRUE)>>,
        <<Rel("Data", 512, 1)>>)

\* Defines the global main, refers to its own internal symbol tmp, names the
\* external global ext without referring to it; carries an entry point.
Local ==
    Obj(("Text" :> Seg(256, <<224, 1, 0>>)) @@ ("Data" :> Seg(0, <<218, 219>>)),
        Some(Entry("Text", 256)),
        <<Sym(tmp, "Data", 1, FALSE), Sym(main, "Text", 256, TRUE),
          Sym(ext, Unknown, 0, TRUE)>>,
        <<Rel("Text", 257, 1)>>)

\* Data only: a table that refers to the external global main and to an
\* internal symbol that is also called tmp.
Table ==
    Obj(("Data" :> Seg(256, <<0, 0, 2, 1, 171>>)),
        None,
        <<Sym(main, Unknown, 0, TRUE), Sym(tmp, "Data", 258, FALSE)>>,
        <<Rel("Data", 256, 1), Rel("Data", 258, 2)>>)

\* A relocation in a segment the object does not have.
BadSeg ==
    Obj(("Text" :> Seg(0, <<0, 0>>)),
        None,
        <<Sym(helper, Unknown, 0, TRUE)>>,
        <<Rel("Data", 0, 1)>>)

\* An object that carries a Zero segment.
ZeroSeg ==
    Obj(("Zero" :> Seg(0, <<>>)) @@ ("Text" :> Seg(0, <<240>>)),
        None, <<>>, <<>>)

WellFormed == {Caller, Callee, Local, Table}

Pool == WellFormed \cup {BadSeg, ZeroSeg}

\* The -E arguments tried: hexadecimal addresses (the last three malformed),
\* and the names of a global that some inputs define (helper, main), of a
\* global that no input defines (ext) and of an internal symbol (tmp).
EntryArgs ==
    {<<"0", "x", "1", "f">>, <<"0", "x", "+", "A", "0", "0">>,
     <<"0", "x", "g">>, <<"0", "x">>, <<"0", "x", "1", "0", "0", "0", "0">>,
     helper, main, ext, tmp}

\* Cli::parse, lines 79-91: -E requires -e (line 38).
Init ==
    /\ \E n \in 0..MaxInputs : objects \in [1..n -> Pool]
    /\ executable \in BOOLEAN
    /\ strip_internal \in BOOLEAN
    /\ set_entry \in {None} \cup (IF executable THEN {Some(a) : a \in EntryArgs} ELSE {})
    /\ pc = "layout" /\ i = 0
    /\ segs_out = EmptyMap /\ segs = EmptyMap /\ global_symbols = EmptyMap
    /\ symbols_out = <<>> /\ reloc_out = <<>> /\ undefined_references = <<>>
    /\ entry_point = None /\ failure = FALSE /\ stderr = <<>>
    /\ result = "running" /\ out_file = None
    /\ file_symbol_to_out_symbol = <<>>
    /\ lay = LayIdle
    /\ assoc = AssocIdle
    /\ enc = EncIdle
    /\ asm = AsmIdle

Cur ==
    [segs_out |-> segs_out, segs |-> segs, global_symbols |-> global_symbols,
     symbols_out |-> symbols_out, reloc_out |-> reloc_out,
     undefined_references |-> undefined_references, entry_point |-> entry_point,
     failure |-> failure, stderr |-> stderr, result |-> result,
     file_symbol_to_out_symbol |-> file_symbol_to_out_symbol]

Set(L) ==
    /\ segs_out' = L.segs_out /\ segs' = L.segs
    /\ global_symbols' = L.global_symbols /\ symbols_out' = L.symbols_out
    /\ reloc_out' = L.reloc_out /\ undefined_references' = L.undefined_references
    /\ entry_point' = L.entry_point /\ failure' = L.failure
    /\ stderr' = L.stderr /\ result' = L.result
    /\ file_symbol_to_out_symbol' = L.file_symbol_to_out_symbol

inputs == <<objects, executable, strip_internal, set_entry>>

\* lines 93-127
DoLayout ==
    /\ pc = "layout"
    /\ Set(layout_state(objects))
    /\ pc' = "merge" /\ i' = 1
    /\ UNCHANGED <<inputs, out_file, lay, assoc, enc, asm>>

\* lines 129-225, one input
DoMerge ==
    /\ pc = "merge" /\ i <= Len(objects)
    /\ LET L == merge_object(Cur, objects[i], i, strip_internal)
       IN /\ Set(L)
          /\ pc' = IF L.result = "running" THEN "merge" ELSE "done"
    /\ i' = i + 1
    /\ UNCHANGED <<inputs, out_file, lay, assoc, enc, asm>>

\* lines 226-251
DoResolve ==
    /\ pc = "merge" /\ i > Len(objects)
    /\ Set(final_resolution(Cur, executable))
    /\ pc' = "entry"
    /\ UNCHANGED <<inputs, i, out_file, lay, assoc, enc, asm>>

\* lines 253-270
DoEntry ==
    /\ pc = "entry"
    /\ LET L == IF set_entry = None THEN Cur ELSE entry_override(Cur, set_entry[1])
       IN /\ Set(L)
          /\ pc' = IF L.result = "running" THEN "emit" ELSE "done"
    /\ UNCHANGED <<inputs, i, out_file, lay, assoc, enc, asm>>

\* lines 272-306
DoEmit ==
    /\ pc = "emit"
    /\ LET e == emit(Cur, executable)
       IN /\ result' = e.result
          /\ out_file' = e.file
    /\ pc' = "done"
    /\ UNCHANGED <<inputs, i, segs_out, segs, global_symbols, symbols_out, reloc_out,
                   undefined_references, entry_point, failure, stderr,
                   file_symbol_to_out_symbol, lay, assoc, enc, asm>>

Next == DoLayout \/ DoMerge \/ DoResolve \/ DoEntry \/ DoEmit

Spec == Init /\ [][Next]_vars

-----------------------------------------------------------------------------
(* Two-level links of three objects: SpecAssoc.  Each link is a run of      *)
(* tl_main in relocatable mode with no flags; the output of the inner run   *)
(* is an input of the outer one.                                            *)

relink(objs) == link(objs, FALSE, FALSE, None)

Failed == [result |-> "InputFailed", file |-> None]

AssocStart ==
    \E a \in WellFormed, b \in WellFormed, c \in WellFormed :
        assoc = [pc |-> "run", objs |-> <<a, b, c>>,
                 ab |-> None, bc |-> None, left |-> None, right |-> None]

\* tl A B
AssocAB ==
    /\ assoc.pc = "run" /\ assoc.ab = None
    /\ assoc' = [assoc EXCEPT !.ab = Some(relink(<<assoc.objs[1], assoc.objs[2]>>))]
    /\ UNCHANGED <<linkvars, lay, enc, asm>>

\* tl B C
AssocBC ==
    /\ assoc.pc = "run" /\ assoc.bc = None
    /\ assoc' = [assoc EXCEPT !.bc = Some(relink(<<assoc.objs[2], assoc.objs[3]>>))]
    /\ UNCHANGED <<linkvars, lay, enc, asm>>

\* tl AB C
AssocLeft ==
    /\ assoc.pc = "run" /\ assoc.ab # None /\ assoc.left = None
    /\ assoc' = [assoc EXCEPT !.left =
          IF assoc.ab[1].result # "Ok" THEN Some(Failed)
          ELSE Some(relink(<<assoc.ab[1].file[1].obj, assoc.objs[3]>>))]
    /\ UNCHANGED <<linkvars, lay, enc, asm>>

\* tl A BC
AssocRight ==
    /\ assoc.pc = "run" /\ assoc.bc # None /\ assoc.right = None
    /\ assoc' = [assoc EXCEPT !.right =
          IF assoc.bc[1].result # "Ok" THEN Some(Failed)
          ELSE Some(relink(<<assoc.objs[1], assoc.bc[1].file[1].obj>>))]
    /\ UNCHANGED <<linkvars, lay, enc, asm>>

AssocInit ==
    AssocStart /\ LinkIdle /\ lay = LayIdle /\ enc = EncIdle /\ asm = AsmIdle

AssocNext == AssocAB \/ AssocBC \/ AssocLeft \/ AssocRight

SpecAssoc == AssocInit /\ [][AssocNext]_vars

-----------------------------------------------------------------------------
(* The specification of the layout block *)

LayInit ==
    LayStart /\ LinkIdle /\ assoc = AssocIdle /\ enc = EncIdle /\ asm = AsmIdle

LayNext == LayLayout \/ LayMerge \/ LayDone

SpecLayout == LayInit /\ [][LayNext]_vars

-----------------------------------------------------------------------------
(* The assembler's source module: src/src/source.rs                         *)
(*                                                                         *)
(* Label names and paths are sequences of one-character strings; mnemonics  *)
(* are strings.  Label ids are the Rust ids plus one.  A function that can  *)
(* panic returns None, or a record with a panic field, where the Rust       *)
(* function would not return.                                               *)

\* u8
M8 == 256

as_u8(n) == n % M8

as_u16(n) == n % M16

\* SourceOperand, lines 33-40.  n: the number or the register index; lbl:
\* the label name.
SourceOperand(kind, n, lbl) == [kind |-> kind, n |-> n, lbl |-> lbl]

SoByte(n) == SourceOperand("Byte", n, <<>>)

SoWide(n) == SourceOperand("Wide", n, <<>>)

SoNumber(n) == SourceOperand("Number", n, <<>>)

SoByteReg(r) == SourceOperand("ByteReg", r, <<>>)

SoWideReg(r) == SourceOperand("WideReg", r, <<>>)

SoLabel(lbl) == SourceOperand("Label", 0, lbl)

\* SourceLine, lines 43-51
SourceLine(kind, name, ins, ops, raw) ==
    [kind |-> kind, name |-> name, ins |-> ins, ops |-> ops, raw |-> raw]

Label(s) == SourceLine("Label", s, "", <<>>, <<>>)

Ins(s, ops) == SourceLine("Ins", <<>>, s, ops, <<>>)

Comment == SourceLine("Comment", <<>>, "", <<>>, <<>>)

DirInclude(path) == SourceLine("DirInclude", path, "", <<>>, <<>>)

DirString(s) == SourceLine("DirString", <<>>, "", <<>>, s)

DirByte(b) == SourceLine("DirByte", <<>>, "", <<>>, <<b>>)

DirWide(w) == SourceLine("DirWide", <<>>, "", <<>>, <<w>>)

\* BBigR, WBigR and Wide, lines 470-485: tag is Register, Byte (BBigR::Byte),
\* Number (Wide::Number) or Label (Wide::Label); NoBig for the shapes that
\* carry none.
BigR(tag, v) == [tag |-> tag, v |-> v]

NoBig == BigR("None", 0)

\* DataOperand, lines 488-503: the shape, its registers in order, its BigR,
\* byte or wide.
DataOperand(shape, regs, big) == [shape |-> shape, regs |-> regs, big |-> big]

Nothing == DataOperand("Nothing", <<>>, NoBig)

\* DataLine, lines 181-185
DataLineIns(opcode, dat_op) ==
    [kind |-> "Ins", opcode |-> opcode, dat_op |-> dat_op, raw |-> <<>>]

DataLineRaw(bytes) ==
    [kind |-> "Raw", opcode |-> "", dat_op |-> Nothing, raw |-> bytes]

\* The mutant of size: a wide BigR counted as one byte.
size_narrow_wide(dat_op) ==
    CASE dat_op.shape = "Nothing" -> 0
      [] dat_op.shape \in {"ByteBigR", "WideBigR", "ByteRegister", "WideRegister",
                           "ImmediateByte"} -> 1
      [] dat_op.shape \in {"ImmediateWide", "TwoByteOneBig", "FourByte",
                           "FourWide"} -> 2
      [] OTHER -> 3

\* DataOperand::size, lines 506-524
size(dat_op) ==
    CASE dat_op.shape = "Nothing" -> 0
      [] dat_op.shape = "ByteBigR" -> 1
      [] dat_op.shape = "WideBigR" -> 2
      [] dat_op.shape = "ByteRegister" -> 1
      [] dat_op.shape = "WideRegister" -> 1
      [] dat_op.shape = "ImmediateByte" -> 1
      [] dat_op.shape = "ImmediateWide" -> 2
      [] dat_op.shape = "TwoByteOneBig" -> 2
      [] dat_op.shape = "TwoWideOneBig" -> 3
      [] dat_op.shape = "WideBigWide" -> 3
      [] dat_op.shape = "ByteWideBig" -> 3
      [] dat_op.shape = "WideBigByte" -> 3
      [] dat_op.shape = "FourByte" -> 2
      [] dat_op.shape = "FourWide" -> 2

\* LabelMaker::get_id, lines 458-466: the id of lbl and the labels after the
\* call.
get_id(labels, lbl) ==
    IF \E k \in 1..Len(labels) : labels[k] = lbl
    THEN [id |-> CHOOSE k \in 1..Len(labels) :
                    /\ labels[k] = lbl
                    /\ \A j \in 1..(k - 1) : labels[j] # lbl,
          labels |-> labels]
    ELSE [id |-> Len(labels) + 1, labels |-> Append(labels, lbl)]

\* DataOperand::byte, lines 608-614
byte(op) ==
    IF op.kind = "Number" /\ op.n = 0 THEN Some(0)
    ELSE IF op.kind = "ByteReg" THEN Some(op.n)
    ELSE None

\* DataOperand::wide, lines 615-621
wide(op) ==
    IF op.kind = "Number" /\ op.n = 0 THEN Some(0)
    ELSE IF op.kind = "WideReg" THEN Some(op.n)
    ELSE None

\* DataOperand::imm_byte, lines 622-628: `n as u8` on the i32 of a Number
imm_byte(op) ==
    IF op.kind = "Number" THEN Some(as_u8(op.n))
    ELSE IF op.kind = "Byte" THEN Some(op.n)
    ELSE None

\* DataOperand::imm_wide, lines 629-636: an Option<Wide> and the labels after
\* the call
imm_wide(op, labels) ==
    IF op.kind = "Number" THEN [res |-> Some(BigR("Number", as_u16(op.n))), labels |-> labels]
    ELSE IF op.kind = "Wide" THEN [res |-> Some(BigR("Number", op.n)), labels |-> labels]
    ELSE IF op.kind = "Label"
    THEN LET g == get_id(labels, op.lbl)
         IN [res |-> Some(BigR("Label", g.id)), labels |-> g.labels]
    ELSE [res |-> None, labels |-> labels]

\* DataOperand::byte_or_imm, lines 637-641
byte_or_imm(op) ==
    IF byte(op) # None THEN Some(BigR("Register", byte(op)[1]))
    ELSE IF imm_byte(op) # None THEN Some(BigR("Byte", imm_byte(op)[1]))
    ELSE None

\* DataOperand::wide_or_imm, lines 642-646
wide_or_imm(op, labels) ==
    IF wide(op) # None
    THEN [res |-> Some(BigR("Register", wide(op)[1])), labels |-> labels]
    ELSE imm_wide(op, labels)

\* The result of a parser that takes the label maker: an Option<DataOperand>
\* and the labels after the call.
Parse(res, labels) == [res |-> res, labels |-> labels]

\* lines 525-529
parse_nothing(ops) == IF ops = <<>> THEN Some(Nothing) ELSE None

\* lines 530-534
parse_breg(ops) ==
    IF ops = <<>> \/ byte(Head(ops)) = None \/ parse_nothing(Tail(ops)) = None
    THEN None
    ELSE Some(DataOperand("ByteRegister", <<byte(Head(ops))[1]>>, NoBig))

\* lines 535-539
parse_wreg(ops) ==
    IF ops = <<>> \/ wide(Head(ops)) = None \/ parse_nothing(Tail(ops)) = None
    THEN None
    ELSE Some(DataOperand("WideRegister", <<wide(Head(ops))[1]>>, NoBig))

\* lines 540-544
parse_immediate_u8(ops) ==
    IF ops = <<>> \/ imm_byte(Head(ops)) = None \/ parse_nothing(Tail(ops)) = None
    THEN None
    ELSE Some(DataOperand("ImmediateByte", <<>>, BigR("Byte", imm_byte(Head(ops))[1])))

\* lines 545-549
parse_immediate_u16(ops, labels) ==
    IF ops = <<>> THEN Parse(None, labels)
    ELSE LET w == imm_wide(Head(ops), labels)
         IN IF w.res = None \/ parse_nothing(Tail(ops)) = None
            THEN Parse(None, w.labels)
            ELSE Parse(Some(DataOperand("ImmediateWide", <<>>, w.res[1])), w.labels)

\* lines 550-554
parse_b_big_r(ops) ==
    IF ops = <<>> \/ byte_or_imm(Head(ops)) = None \/ parse_nothing(Tail(ops)) = None
    THEN None
    ELSE Some(DataOperand("ByteBigR", <<>>, byte_or_imm(Head(ops))[1]))

\* lines 555-559
parse_w_big_r(ops, labels) ==
    IF ops = <<>> THEN Parse(None, labels)
    ELSE LET w == wide_or_imm(Head(ops), labels)
         IN IF w.res = None \/ parse_nothing(Tail(ops)) = None
            THEN Parse(None, w.labels)
            ELSE Parse(Some(DataOperand("WideBigR", <<>>, w.res[1])), w.labels)

\* lines 560-564: operands after the third are not looked at
parse_two_byte_one_big(ops) ==
    IF Len(ops) < 2 THEN None
    ELSE IF byte(ops[1]) = None \/ byte(ops[2]) = None THEN None
    ELSE IF Len(ops) < 3 THEN None
    ELSE IF byte_or_imm(ops[3]) = None THEN None
    ELSE Some(DataOperand("TwoByteOneBig", <<byte(ops[1])[1], byte(ops[2])[1]>>,
                          byte_or_imm(ops[3])[1]))

\* lines 565-569
parse_two_wide_one_big(ops, labels) ==
    IF Len(ops) < 2 THEN Parse(None, labels)
    ELSE IF wide(ops[1]) = None \/ wide(ops[2]) = None THEN Parse(None, labels)
    ELSE IF Len(ops) < 3 THEN Parse(None, labels)
    ELSE LET w == wide_or_imm(ops[3], labels)
         IN IF w.res = None THEN Parse(None, w.labels)
            ELSE Parse(Some(DataOperand("TwoWideOneBig",
                                        <<wide(ops[1])[1], wide(ops[2])[1]>>, w.res[1])),
                       w.labels)

\* lines 570-576
parse_wide_big_byte(ops, labels) ==
    IF Len(ops) < 1 THEN Parse(None, labels)
    ELSE IF wide(ops[1]) = None THEN Parse(None, labels)
    ELSE IF Len(ops) < 2 THEN Parse(None, labels)
    ELSE LET w == wide_or_imm(ops[2], labels)
         IN IF w.res = None \/ Len(ops) < 3 THEN Parse(None, w.labels)
            ELSE IF byte(ops[3]) = None THEN Parse(None, w.labels)
            ELSE Parse(Some(DataOperand("WideBigByte",
                                        <<wide(ops[1])[1], byte(ops[3])[1]>>, w.res[1])),
                       w.labels)

\* lines 577-583
parse_wide_big_wide(ops, labels) ==
    IF Len(ops) < 1 THEN Parse(None, labels)
    ELSE IF wide(ops[1]) = None THEN Parse(None, labels)
    ELSE IF Len(ops) < 2 THEN Parse(None, labels)
    ELSE LET w == wide_or_imm(ops[2], labels)
         IN IF w.res = None \/ Len(ops) < 3 THEN Parse(None, w.labels)
            ELSE IF wide(ops[3]) = None THEN Parse(None, w.labels)
            ELSE Parse(Some(DataOperand("WideBigWide",
                                        <<wide(ops[1])[1], wide(ops[3])[1]>>, w.res[1])),
                       w.labels)

\* lines 584-590
parse_byte_wide_big(ops, labels) ==
    IF Len(ops) < 1 THEN Parse(None, labels)
    ELSE IF byte(ops[1]) = None THEN Parse(None, labels)
    ELSE IF Len(ops) < 2 THEN Parse(None, labels)
    ELSE IF wide(ops[2]) = None THEN Parse(None, labels)
    ELSE IF Len(ops) < 3 THEN Parse(None, labels)
    ELSE LET w == wide_or_imm(ops[3], labels)
         IN IF w.res = None THEN Parse(None, w.labels)
            ELSE Parse(Some(DataOperand("ByteWideBig",
                                        <<byte(ops[1])[1], wide(ops[2])[1]>>, w.res[1])),
                       w.labels)

\* lines 591-598: the result of the trailing parse_nothing is dropped
parse_four_byte(ops) ==
    IF Len(ops) < 4 THEN None
    ELSE IF \E k \in 1..4 : byte(ops[k]) = None THEN None
    ELSE Some(DataOperand("FourByte", [k \in 1..4 |-> byte(ops[k])[1]], NoBig))

\* lines 599-606
parse_four_wide(ops) ==
    IF Len(ops) < 4 THEN None
    ELSE IF \E k \in 1..4 : wide(ops[k]) = None THEN None
    ELSE Some(DataOperand("FourWide", [k \in 1..4 |-> wide(ops[k])[1]], NoBig))

\* The result of parse_ins: the opcode (by the name of its isa constant), the
\* operand and the labels after the call; panic where parse_ins panics.
Parsed(opcode, dat_op, labels) ==
    [opcode |-> opcode, dat_op |-> dat_op, labels |-> labels, panic |-> FALSE]

ParsePanic(labels) ==
    [opcode |-> "", dat_op |-> Nothing, labels |-> labels, panic |-> TRUE]

\* The mnemonics whose only operand is a wide immediate, and their opcodes
\* (lines 268 and 297-308).
WideImmediateOps ==
    [call |-> "CALL", jez |-> "JEZ", jlt |-> "JLT", jle |-> "JLE", jgt |-> "JGT",
     jge |-> "JGE", jnz |-> "JNZ", jo |-> "JO", jno |-> "JNO", jb |-> "JB",
     jc |-> "JB", jae |-> "JAE", jnc |-> "JAE", ja |-> "JA", jbe |-> "JBE"]

\* The mnemonics that take two registers and a BigR, all byte or all wide
\* (lines 310-354).
ArithmeticOps ==
    [add |-> "ADD", sub |-> "SUB", and |-> "AND", or |-> "OR", xor |-> "XOR"]

\* The mnemonics that take four registers (lines 355-372).
FourRegisterOps == [mul |-> "MUL", div |-> "DIV"]

\* `X_B` and `X_W` from X.
Suffixed(name, suffix) ==
    CASE name = "ADD" -> IF suffix = "B" THEN "ADD_B" ELSE "ADD_W"
      [] name = "SUB" -> IF suffix = "B" THEN "SUB_B" ELSE "SUB_W"
      [] name = "AND" -> IF suffix = "B" THEN "AND_B" ELSE "AND_W"
      [] name = "OR" -> IF suffix = "B" THEN "OR_B" ELSE "OR_W"
      [] name = "XOR" -> IF suffix = "B" THEN "XOR_B" ELSE "XOR_W"
      [] name = "MUL" -> IF suffix = "B" THEN "MUL_B" ELSE "MUL_W"
      [] name = "DIV" -> IF suffix = "B" THEN "DIV_B" ELSE "DIV_W"

\* A byte-form parser first, then a wide-form parser on the same operands
\* (the ops.clone() pattern of parse_ins), else the panic.
first_of(b, opcode_b, labels, w, opcode_w) ==
    IF b # None THEN Parsed(opcode_b, b[1], labels)
    ELSE IF w.res # None THEN Parsed(opcode_w, w.res[1], w.labels)
    ELSE ParsePanic(w.labels)

\* parse_ins, lines 241-375
parse_ins(s, ops, labels) ==
    CASE s \in {"null", "halt", "nop"} ->
            IF parse_nothing(ops) = None THEN ParsePanic(labels)
            ELSE Parsed(CASE s = "null" -> "NULL" [] s = "halt" -> "HALT"
                          [] s = "nop" -> "NOP",
                        Nothing, labels)
      [] s = "push" ->
            IF parse_b_big_r(ops) # None
            THEN Parsed("PUSH_B", parse_b_big_r(ops)[1], labels)
            ELSE LET w == parse_w_big_r(ops, labels)
                 IN IF w.res # None THEN Parsed("PUSH_W", w.res[1], w.labels)
                    ELSE ParsePanic(w.labels)
      [] s = "pop" ->
            IF parse_breg(ops) # None THEN Parsed("POP_B", parse_breg(ops)[1], labels)
            ELSE IF parse_wreg(ops) # None
            THEN Parsed("POP_W", parse_wreg(ops)[1], labels)
            ELSE ParsePanic(labels)
      [] s \in DOMAIN WideImmediateOps ->
            LET w == parse_immediate_u16(ops, labels)
            IN IF w.res = None THEN ParsePanic(w.labels)
               ELSE Parsed(WideImmediateOps[s], w.res[1], w.labels)
      [] s = "ret" ->
            IF parse_nothing(ops) # None
            THEN Parsed("RET", DataOperand("ImmediateByte", <<>>, BigR("Byte", 0)), labels)
            ELSE IF parse_immediate_u8(ops) # None
            THEN Parsed("RET", parse_immediate_u8(ops)[1], labels)
            ELSE ParsePanic(labels)
      [] s = "store" ->
            LET b == parse_wide_big_byte(ops, labels)
            IN IF b.res # None THEN Parsed("STORE_B", b.res[1], b.labels)
               ELSE LET w == parse_wide_big_wide(ops, b.labels)
                    IN IF w.res # None THEN Parsed("STORE_W", w.res[1], w.labels)
                       ELSE ParsePanic(w.labels)
      [] s = "load" ->
            LET b == parse_byte_wide_big(ops, labels)
            IN IF b.res # None THEN Parsed("LOAD_B", b.res[1], b.labels)
               ELSE LET w == parse_two_wide_one_big(ops, b.labels)
                    IN IF w.res # None THEN Parsed("LOAD_W", w.res[1], w.labels)
                       ELSE ParsePanic(w.labels)
      [] s \in {"jmp", "jump"} ->
            LET w == parse_immediate_u16(ops, labels)
            IN IF w.res # None THEN Parsed("JUMP", w.res[1], w.labels)
               ELSE IF parse_wreg(ops) # None
               THEN Parsed("JUMP_REG", parse_wreg(ops)[1], w.labels)
               ELSE ParsePanic(w.labels)
      [] s \in DOMAIN ArithmeticOps ->
            first_of(parse_two_byte_one_big(ops), Suffixed(ArithmeticOps[s], "B"), labels,
                     parse_two_wide_one_big(ops, labels), Suffixed(ArithmeticOps[s], "W"))
      [] s \in DOMAIN FourRegisterOps ->
            first_of(parse_four_byte(ops), Suffixed(FourRegisterOps[s], "B"), labels,
                     Parse(parse_four_wide(ops), labels), Suffixed(FourRegisterOps[s], "W"))
      [] OTHER -> ParsePanic(labels)

\* The mutant of big_r_to_byte: the immediate is written as it is.
big_r_to_byte_plain(br) ==
    IF br.tag = "Register" THEN Some(br.v)
    ELSE IF br.v + 7 >= M8 THEN None
    ELSE Some(br.v)

\* big_r_to_byte, lines 377-384; None: the expect of checked_add panics
big_r_to_byte(br) ==
    IF br.tag = "Register" THEN Some(br.v)
    ELSE IF br.v = 0 THEN Some(0)
    ELSE IF br.v + 7 >= M8 THEN None
    ELSE Some(br.v + 7)

\* parse_wide, lines 400-405; None: expect("no such label") panics
parse_wide(w, id_to_pos) ==
    IF w.tag = "Label"
    THEN IF w.v \in DOMAIN id_to_pos THEN Some(id_to_pos[w.v]) ELSE None
    ELSE Some(w.v)

\* big_r_to_wide, lines 385-398; None: one of the two expects panics
big_r_to_wide(wr, id_to_pos) ==
    IF wr.tag = "Register" THEN Some(to_le_bytes(wr.v))
    ELSE LET w == parse_wide(wr, id_to_pos)
         IN IF w = None THEN None
            ELSE IF w[1] = 0 THEN Some(to_le_bytes(0))
            ELSE IF w[1] + 7 >= M16 THEN None
            ELSE Some(to_le_bytes(w[1] + 7))

\* ((r1 as u8) << 4) | r2 as u8
pack(r1, r2) == ((r1 * 16) % M8) + r2

\* mem after the push or extend_from_slice of an encoded field; the panic of
\* the encoder where there is no field.
appended(mem, field) ==
    IF field = None THEN [mem |-> mem, panic |-> TRUE]
    ELSE [mem |-> mem \o field[1], panic |-> FALSE]

\* write_data_operand, lines 407-451
write_data_operand(mem, id_to_pos, dat_op) ==
    LET r == dat_op.regs
        byte_big == LET b == big_r_to_byte(dat_op.big)
                    IN IF b = None THEN None ELSE Some(<<b[1]>>)
        wide_big == big_r_to_wide(dat_op.big, id_to_pos)
    IN CASE dat_op.shape = "Nothing" -> appended(mem, Some(<<>>))
         [] dat_op.shape = "ByteBigR" -> appended(mem, byte_big)
         [] dat_op.shape = "WideBigR" -> appended(mem, wide_big)
         [] dat_op.shape \in {"ByteRegister", "WideRegister"} ->
               appended(mem, Some(<<(r[1] * 16) % M8>>))
         [] dat_op.shape = "ImmediateByte" -> appended(mem, Some(<<dat_op.big.v>>))
         [] dat_op.shape = "ImmediateWide" ->
               LET w == parse_wide(dat_op.big, id_to_pos)
               IN appended(mem, IF w = None THEN None ELSE Some(to_le_bytes(w[1])))
         [] dat_op.shape = "TwoByteOneBig" ->
               appended(Append(mem, pack(r[1], r[2])), byte_big)
         [] dat_op.shape \in {"WideBigByte", "ByteWideBig", "WideBigWide",
                              "TwoWideOneBig"} ->
               appended(Append(mem, pack(r[1], r[2])), wide_big)
         [] dat_op.shape \in {"FourByte", "FourWide"} ->
               appended(mem, Some(<<pack(r[1], r[2]), pack(r[3], r[4])>>))

\* HashMap::insert
insert(map, k, v) == [x \in DOMAIN map \cup {k} |-> IF x = k THEN v ELSE map[x]]

\* char::is_uppercase, on the letters used here
Uppercase ==
    {"A", "B", "C", "D", "E", "F", "G", "H", "I", "J", "K", "L", "M",
     "N", "O", "P", "Q", "R", "S", "T", "U", "V", "W", "X", "Y", "Z"}

is_uppercase(c) == c \in Uppercase

\* format!("{path}  {lbl}"), line 227
namespaced(path, lbl) == path \o <<" ", " ">> \o lbl

\* The mutant of import_label: every imported label is prefixed, uppercase or
\* not.
import_label_always_prefixed(acc, path, lbl, k, included_id_to_pos) ==
    IF lbl = <<>> \/ k \notin DOMAIN included_id_to_pos
    THEN [acc EXCEPT !.panic = TRUE]
    ELSE LET g == get_id(acc.labels, namespaced(path, lbl))
         IN [acc EXCEPT !.labels = g.labels,
                        !.id_to_pos = insert(@, g.id, included_id_to_pos[k])]

\* lines 223-231, one iteration: the label with id k of the included file.
\* chars().next().unwrap() panics on an empty name, the index
\* included_id_to_pos[&i] on a label that the included file only refers to.
import_label(acc, path, lbl, k, included_id_to_pos) ==
    IF lbl = <<>> THEN [acc EXCEPT !.panic = TRUE]
    ELSE LET name == IF is_uppercase(lbl[1]) THEN lbl ELSE namespaced(path, lbl)
             g == get_id(acc.labels, name)
         IN IF k \notin DOMAIN included_id_to_pos
            THEN [acc EXCEPT !.labels = g.labels, !.panic = TRUE]
            ELSE [acc EXCEPT !.labels = g.labels,
                             !.id_to_pos = insert(@, g.id, included_id_to_pos[k])]

RECURSIVE import_labels(_, _, _, _, _)
import_labels(acc, path, included_labels, k, included_id_to_pos) ==
    IF k > Len(included_labels) \/ acc.panic THEN acc
    ELSE import_labels(import_label(acc, path, included_labels[k], k, included_id_to_pos),
                       path, included_labels, k + 1, included_id_to_pos)

\* The locals of inner_process (lines 190-192) and the shared offset counter.
process_state(cur_offset) ==
    [data_lines |-> <<>>, id_to_pos |-> EmptyMap, labels |-> <<>>,
     cur_offset |-> cur_offset, panic |-> FALSE]

\* inner_process, lines 189-239.  fs: the files that File::open finds, path
\* -> source lines; a missing file panics (unwrap, line 219).
RECURSIVE inner_process(_, _, _)
process_line(acc, line, fs) ==
    CASE line.kind = "Label" ->
            LET g == get_id(acc.labels, line.name)
            IN [acc EXCEPT !.labels = g.labels,
                           !.id_to_pos = insert(@, g.id, acc.cur_offset)]
      [] line.kind = "Ins" ->
            LET p == parse_ins(line.ins, line.ops, acc.labels)
            IN IF p.panic THEN [acc EXCEPT !.panic = TRUE]
               ELSE [acc EXCEPT
                       !.labels = p.labels,
                       !.cur_offset = Add16(@, 1 + size(p.dat_op)),
                       !.data_lines = Append(@, DataLineIns(p.opcode, p.dat_op))]
      [] line.kind = "DirByte" ->
            [acc EXCEPT !.cur_offset = Add16(@, 1),
                        !.data_lines = Append(@, DataLineRaw(line.raw))]
      [] line.kind = "DirWide" ->
            [acc EXCEPT !.cur_offset = Add16(@, 2),
                        !.data_lines = Append(@, DataLineRaw(to_le_bytes(line.raw[1])))]
      [] line.kind = "DirString" ->
            [acc EXCEPT !.cur_offset = Add16(@, as_u16(Len(line.raw))),
                        !.data_lines = Append(@, DataLineRaw(line.raw))]
      [] line.kind = "DirInclude" ->
            IF line.name \notin DOMAIN fs THEN [acc EXCEPT !.panic = TRUE]
            ELSE LET inc == inner_process(fs[line.name], acc.cur_offset, fs)
                 IN IF inc.panic THEN [acc EXCEPT !.panic = TRUE]
                    ELSE import_labels(
                            [acc EXCEPT !.data_lines = @ \o inc.data_lines,
                                        !.cur_offset = inc.cur_offset],
                            line.name, inc.labels, 1, inc.id_to_pos)
      [] line.kind = "Comment" -> acc

RECURSIVE process_lines(_, _, _)
process_lines(acc, lines, fs) ==
    IF lines = <<>> \/ acc.panic THEN acc
    ELSE process_lines(process_line(acc, Head(lines), fs), Tail(lines), fs)

inner_process(lines, cur_offset, fs) ==
    process_lines(process_state(cur_offset), lines, fs)

\* process, lines 186-188
process(lines, fs) == inner_process(lines, 0, fs)

-----------------------------------------------------------------------------
(* Pass 2, the caller of process and write_data_operand.  It is the         *)
(* assembler binary, which is not among the source files modelled here; it  *)
(* follows the design document: the data-lines are walked in order, an      *)
(* instruction gives its opcode byte and its encoded operand, and a label   *)
(* that the unit does not define is an external reference of location 0.    *)

\* The names of the isa opcode constants that parse_ins uses.  Their values
\* are not in source.rs; the position in this list stands for them.
OpcodeNames ==
    <<"NULL", "HALT", "NOP", "PUSH_B", "PUSH_W", "POP_B", "POP_W", "CALL", "RET",
      "STORE_B", "STORE_W", "LOAD_B", "LOAD_W", "JUMP", "JUMP_REG",
      "JEZ", "JLT", "JLE", "JGT", "JGE", "JNZ", "JO", "JNO", "JB", "JAE", "JA", "JBE",
      "ADD_B", "ADD_W", "SUB_B", "SUB_W", "AND_B", "AND_W", "OR_B", "OR_W",
      "XOR_B", "XOR_W", "MUL_B", "MUL_W", "DIV_B", "DIV_W">>

isa(name) == CHOOSE k \in 1..Len(OpcodeNames) : OpcodeNames[k] = name

\* The label-id -> offset map that pass 2 encodes with: the labels of the
\* unit that pass 1 gave no offset are external, location 0.
with_externals(id_to_pos, labels) ==
    [id \in 1..Len(labels) |-> IF id \in DOMAIN id_to_pos THEN id_to_pos[id] ELSE 0]

\* One data-line of pass 2.
write_data_line(mem, id_to_pos, line) ==
    IF line.kind = "Raw" THEN [mem |-> mem \o line.raw, panic |-> FALSE]
    ELSE write_data_operand(Append(mem, isa(line.opcode)), id_to_pos, line.dat_op)

-----------------------------------------------------------------------------
(* One instruction through parse_ins and write_data_operand: SpecBigR *)

\* The values of wide literals and of label offsets tried: the ends of the
\* range and the values around the two bounds of the BigR encodings.
WideValues == {0, 1, 7, 8, 247, 248, 249, 255, 256, 65527, 65528, 65529, 65535}

\* The plain numbers tried (SourceOperand::Number holds an i32).
NumberValues ==
    {-32769, -129, -128, -1, 0, 1, 7, 8, 247, 248, 249, 255, 256, 263, 300,
     65527, 65528, 65529, 65535, 65536, 65543, 65836, 70000}

lbl_start == <<"s", "t">>

\* The last operand of the instruction: every byte literal, the wide
\* literals and plain numbers above, every register, a label.
EncOperands ==
    {SoByte(n) : n \in 0..(M8 - 1)} \cup {SoWide(n) : n \in WideValues}
        \cup {SoNumber(n) : n \in NumberValues}
        \cup {SoByteReg(r) : r \in 0..7} \cup {SoWideReg(r) : r \in 0..7}
        \cup {SoLabel(lbl_start)}

\* The operands before the last one, by mnemonic: push and ret take one
\* operand; add takes two registers first, byte or wide.
EncPrefixes ==
    [push |-> {<<>>}, ret |-> {<<>>},
     add |-> {<<SoByteReg(1), SoByteReg(2)>>, <<SoWideReg(1), SoWideReg(2)>>}]

EncStart ==
    \E s \in DOMAIN EncPrefixes : \E pre \in EncPrefixes[s] : \E x \in EncOperands :
    \E v \in WideValues :
        /\ x.kind # "Label" => v = 0
        /\ enc = [pc |-> "parse", ins |-> s, ops |-> Append(pre, x),
                  id_to_pos |-> IF x.kind = "Label" THEN (1 :> v) ELSE EmptyMap,
                  opcode |-> "", dat_op |-> Nothing, mem |-> <<>>]

\* parse_ins on the instruction, with a fresh label maker (line 201)
EncParse ==
    /\ enc.pc = "parse"
    /\ LET p == parse_ins(enc.ins, enc.ops, <<>>)
       IN IF p.panic THEN enc' = [enc EXCEPT !.pc = "panic"]
          ELSE enc' = [enc EXCEPT !.pc = "write", !.opcode = p.opcode,
                                  !.dat_op = p.dat_op]
    /\ UNCHANGED <<linkvars, lay, assoc, asm>>

\* write_data_operand on the parsed operand
EncWrite ==
    /\ enc.pc = "write"
    /\ LET w == write_data_operand(<<>>, enc.id_to_pos, enc.dat_op)
       IN IF w.panic THEN enc' = [enc EXCEPT !.pc = "panic"]
          ELSE enc' = [enc EXCEPT !.pc = "done", !.mem = w.mem]
    /\ UNCHANGED <<linkvars, lay, assoc, asm>>

EncInit ==
    EncStart /\ LinkIdle /\ lay = LayIdle /\ assoc = AssocIdle /\ asm = AsmIdle

EncNext == EncParse \/ EncWrite

SpecBigR == EncInit /\ [][EncNext]_vars

-----------------------------------------------------------------------------
(* One compilation unit through both passes: SpecAsm *)

MaxLines == 3

lbl_tmp == <<"t", "m", "p">>

lbl_Pub == <<"P", "u", "b">>

lbl_far == <<"f", "a", "r">>

lib_t == <<"l", ".", "t">>

lib_u == <<"u", ".", "t">>

lib_n == <<"n", ".", "t">>

\* The files that an include directive can name.  l.t defines a label of its
\* own and a cross-file global, and refers to the former; u.t refers to a
\* label that it does not define; n.t includes l.t behind a byte of its own.
Files ==
    (lib_t :> <<Label(lbl_tmp), Ins("jmp", <<SoLabel(lbl_tmp)>>),
                Label(lbl_Pub), DirByte(7)>>)
    @@ (lib_u :> <<Ins("call", <<SoLabel(lbl_far)>>)>>)
    @@ (lib_n :> <<DirByte(1), DirInclude(lib_t), Label(lbl_tmp)>>)

\* Lines that define, refer to or import labels.
StructLines ==
    {Label(lbl_start), Label(lbl_Pub),
     DirInclude(lib_t), DirInclude(lib_u), DirInclude(lib_n),
     Ins("call", <<SoLabel(lbl_Pub)>>)}

\* One instruction of every operand shape, the three data directives and a
\* comment.
ShapeLines ==
    {Ins("nop", <<>>),
     Ins("push", <<SoByte(5)>>),
     Ins("push", <<SoWide(300)>>),
     Ins("pop", <<SoByteReg(1)>>),
     Ins("pop", <<SoWideReg(1)>>),
     Ins("ret", <<>>),
     Ins("call", <<SoWide(4660)>>),
     Ins("add", <<SoByteReg(1), SoByteReg(3), SoByte(9)>>),
     Ins("add", <<SoWideReg(1), SoWideReg(2), SoWide(1000)>>),
     Ins("store", <<SoWideReg(1), SoWide(2), SoWideReg(2)>>),
     Ins("store", <<SoWideReg(1), SoWide(2), SoByteReg(1)>>),
     Ins("load", <<SoByteReg(1), SoWideReg(1), SoWide(2)>>),
     Ins("mul", <<SoByteReg(1), SoByteReg(2), SoByteReg(3), SoByteReg(4)>>),
     Ins("div", <<SoWideReg(1), SoWideReg(2), SoWideReg(3), SoWideReg(4)>>),
     DirByte(200), DirWide(4660), DirString(<<104, 105, 0>>),
     Comment}

\* The top-level files: up to MaxLines lines, at most one of them from
\* ShapeLines.
Units ==
    UNION {{u \in [1..n -> StructLines \cup ShapeLines] :
               Cardinality({k \in 1..n : u[k] \in ShapeLines}) <= 1} :
           n \in 1..MaxLines}

AsmStart ==
    \E u \in Units :
        asm = [pc |-> "process", lines |-> u, id_to_pos |-> EmptyMap,
               labels |-> <<>>, data_lines |-> <<>>, k |-> 1, mem |-> <<>>,
               ends |-> <<>>]

\* Pass 1: process, lines 186-188
AsmProcess ==
    /\ asm.pc = "process"
    /\ LET p == process(asm.lines, Files)
       IN IF p.panic THEN asm' = [asm EXCEPT !.pc = "panic"]
          ELSE asm' = [asm EXCEPT !.pc = "encode", !.id_to_pos = p.id_to_pos,
                                  !.labels = p.labels, !.data_lines = p.data_lines]
    /\ UNCHANGED <<linkvars, lay, assoc, enc>>

\* Pass 2, one data-line; ends: the length of mem after each data-line.
AsmEncode ==
    /\ asm.pc = "encode"
    /\ asm.k <= Len(asm.data_lines)
    /\ LET w == write_data_line(asm.mem, with_externals(asm.id_to_pos, asm.labels),
                                asm.data_lines[asm.k])
       IN IF w.panic THEN asm' = [asm EXCEPT !.pc = "panic"]
          ELSE asm' = [asm EXCEPT !.mem = w.mem, !.ends = Append(@, Len(w.mem)),
                                  !.k = @ + 1]
    /\ UNCHANGED <<linkvars, lay, assoc, enc>>

AsmDone ==
    /\ asm.pc = "encode"
    /\ asm.k > Len(asm.data_lines)
    /\ asm' = [asm EXCEPT !.pc = "done"]
    /\ UNCHANGED <<linkvars, lay, assoc, enc>>

AsmInit ==
    AsmStart /\ LinkIdle /\ lay = LayIdle /\ assoc = AssocIdle /\ enc = EncIdle

AsmNext == AsmProcess \/ AsmEncode \/ AsmDone

SpecAsm == AsmInit /\ [][AsmNext]_vars

-----------------------------------------------------------------------------
(* Properties *)

\* A run that came to its end without a panic, every input merged.
Finished == pc = "done" /\ result # "panic"

Written == pc = "done" /\ result = "Ok"

OutObj == out_file[1].obj

\* The two bytes of o's payload that the relocation r names.
Slot(o, r) ==
    LET seg == o.segs[r.reference_segment]
        off == r.reference_location - seg.start
    IN <<seg.bytes[off + 1], seg.bytes[off + 2]>>

LittleEndian(n) == <<n % 256, n \div 256>>

IsDefined(o, r) == o.symbols[r.symbol_index].segment_type # Unknown

\* C1: after a successful link, every relocation of the output whose symbol
\* is defined (its segment is not Unknown) names a slot of the output payload
\* that holds the symbol's location in the merged table, little-endian;
\* whichever of the referencing and the defining input comes first.
C1_RelocationSlotsHoldAddress ==
    Written =>
        \A k \in 1..Len(OutObj.relocation_table) :
            LET r == OutObj.relocation_table[k]
            IN IsDefined(OutObj, r) =>
                   Slot(OutObj, r) = LittleEndian(OutObj.symbols[r.symbol_index].location)

\* The referencing input comes first, the defining one second, and another
\* referencing one third.
C1_Witness ==
    /\ Written
    /\ objects = <<Caller, Callee, Caller>>
    /\ \A k \in 1..Len(OutObj.relocation_table) : IsDefined(OutObj, OutObj.relocation_table[k])
    /\ OutObj.symbols[1].location # 0

-----------------------------------------------------------------------------
(* C2: the layout *)

LayPlaced == lay.pc \in {"merge", "done"}

LayTotal(st) == SumLengths(lay.lens, st)

LayGrandTotal ==
    LayTotal("Zero") + LayTotal("Text") + LayTotal("RoData") + LayTotal("Data")
        + LayTotal("Bss") + LayTotal("Unknown")

RoundUp(n) == CHOOSE m \in n..(n + SEGMENT_ALIGNMENT - 1) : m % SEGMENT_ALIGNMENT = 0

LayFloor == Max(LayTotal("Zero"), SEGMENT_ALIGNMENT)

\* The end of the segment placed just before st, or the floor for the first.
LayPrevEnd(st) ==
    LET before == {t \in DOMAIN lay.start : SegKey(t) < SegKey(st)}
    IN IF before = {} THEN LayFloor
       ELSE LET p == CHOOSE t \in before : \A u \in before : SegKey(u) <= SegKey(t)
            IN lay.start[p] + LayTotal(p)

LayoutShape ==
    /\ DOMAIN lay.start = LengthKeys(lay.lens) \ {"Zero"}
    /\ \A st \in DOMAIN lay.start :
          /\ lay.start[st] % SEGMENT_ALIGNMENT = 0
          /\ lay.start[st] >= LayFloor
          /\ lay.start[st] = RoundUp(LayPrevEnd(st))
    /\ \A s \in DOMAIN lay.start : \A t \in DOMAIN lay.start :
          s # t => \/ lay.start[s] + LayTotal(s) <= lay.start[t]
                   \/ lay.start[t] + LayTotal(t) <= lay.start[s]

\* The whole layout stays within the 16-bit address space: no rounded base
\* and no end of a segment passes 65535.
LayFits == ~Layout(lay.lens).ovf

\* C2 as amended: when the layout stays within 16 bits (every rounded base and
\* every base + length at most 65535), every output base is a multiple of
\* SEGMENT_ALIGNMENT and at least max(length of Zero, SEGMENT_ALIGNMENT), the
\* segments are placed in key order, each at the previous end rounded up, no
\* two ranges overlap, and the merge loop leaves these bases as they are.
C2_LayoutWithinAddressSpace == (LayPlaced /\ LayFits) => LayoutShape

\* C2 as stated: the same, for all inputs whose segment lengths add up to at
\* most 65535.
C2_LayoutWhenLengthsFit == (LayPlaced /\ LayGrandTotal < M16) => LayoutShape

\* Two inputs merged, three segments placed, the running starts moved on.
C2_Witness ==
    /\ lay.pc = "done" /\ LayFits
    /\ Len(lay.lens) = 2
    /\ DOMAIN lay.start = {"Text", "Data", "Bss"}
    /\ lay.start["Bss"] > lay.start["Data"] + SEGMENT_ALIGNMENT
    /\ \A st \in DOMAIN lay.start : lay.ins[st] # lay.start[st]

-----------------------------------------------------------------------------
(* C3: duplicate globals *)

IsGlobalDef(sym) == sym.is_global /\ sym.segment_type # Unknown

\* The definitions that collide: <<k, s>> is symbol s of input k, a global
\* definition of a name that an earlier symbol of the inputs also defines.
Collisions ==
    UNION {{<<k, s>> : s \in {t \in 1..Len(objects[k].symbols) :
                /\ IsGlobalDef(objects[k].symbols[t])
                /\ \E j \in 1..k : \E u \in 1..Len(objects[j].symbols) :
                      /\ (j < k \/ u < t)
                      /\ IsGlobalDef(objects[j].symbols[u])
                      /\ objects[j].symbols[u].name = objects[k].symbols[t].name}} :
           k \in 1..Len(objects)}

\* The first input that defines the global name.
FirstDefiner(name) ==
    CHOOSE j \in 1..Len(objects) :
        /\ \E t \in 1..Len(objects[j].symbols) :
              IsGlobalDef(objects[j].symbols[t]) /\ objects[j].symbols[t].name = name
        /\ \A h \in 1..(j - 1) : \A t \in 1..Len(objects[h].symbols) :
              ~(IsGlobalDef(objects[h].symbols[t]) /\ objects[h].symbols[t].name = name)

DuplicateReports == SelectSeq(stderr, LAMBDA m : m.kind = "duplicate")

\* The files a line of stderr names.
FilesNamed(m) == IF m.file = 0 THEN {} ELSE {m.file}

DuplicatesFailTheLink ==
    (Finished /\ Collisions # {}) =>
        /\ i = Len(objects) + 1
        /\ result # "Ok" /\ out_file = None
        /\ Len(DuplicateReports) = Cardinality(Collisions)
        /\ \A p \in Collisions : \E k \in 1..Len(DuplicateReports) :
              /\ DuplicateReports[k].name = objects[p[1]].symbols[p[2]].name
              /\ p[1] \in FilesNamed(DuplicateReports[k])

\* C3 as amended: when two inputs define the same global name, every
\* remaining input is still merged (every later collision is reported too),
\* the link fails and no output file is written; each report names the file
\* of the colliding, later definition.
C3_DuplicateGlobalFails == DuplicatesFailTheLink

\* C3 as stated: ... and each report names both files involved.
C3_ReportNamesBothFiles ==
    /\ DuplicatesFailTheLink
    /\ Finished =>
          \A k \in 1..Len(DuplicateReports) :
              FirstDefiner(DuplicateReports[k].name) \in FilesNamed(DuplicateReports[k])

\* The second input collides with the first, the third is merged all the same.
C3_Witness ==
    /\ Finished
    /\ objects = <<Callee, Callee, Local>>
    /\ Len(DuplicateReports) = 1
    /\ Len(symbols_out) = 4

-----------------------------------------------------------------------------
(* C4: references that stay undefined *)

UndefinedRelocs ==
    {k \in 1..Len(reloc_out) : symbols_out[reloc_out[k].symbol_index].segment_type = Unknown}

\* C4: once all inputs are merged, a relocation whose symbol is still Unknown
\* fails the link of an executable (no file written); in a relocatable link
\* it is no error, the relocation is in the output table and its slot holds
\* zero (the external's location being 0); an executable that is written has
\* no relocation to an Unknown symbol.
C4_UndefinedReferences ==
    /\ (Finished /\ executable /\ UndefinedRelocs # {}) =>
          (result # "Ok" /\ out_file = None)
    /\ (Finished /\ ~executable) =>
          /\ \A k \in 1..Len(stderr) : stderr[k].kind # "undefined"
          /\ (result = "Ok") <=> (Collisions = {})
    /\ (Written /\ ~executable) =>
          /\ Len(OutObj.relocation_table) = Len(reloc_out)
          /\ \A k \in UndefinedRelocs :
                /\ OutObj.relocation_table[k] = reloc_out[k]
                /\ ~IsDefined(OutObj, reloc_out[k])
                /\ OutObj.symbols[reloc_out[k].symbol_index].location = 0
                      => Slot(OutObj, reloc_out[k]) = <<0, 0>>
    /\ (Written /\ executable) =>
          \A k \in 1..Len(OutObj.relocation_table) :
              IsDefined(OutObj, OutObj.relocation_table[k])

\* A relocatable link that keeps a reference to an external.
C4_Witness ==
    /\ Written /\ ~executable
    /\ objects = <<Local, Caller>>
    /\ UndefinedRelocs = {2}

-----------------------------------------------------------------------------
(* C5 and C6: the entry point *)

RECURSIVE PayloadBefore(_, _)
\* The bytes of segment st that the inputs before input k contribute.
PayloadBefore(k, st) ==
    IF k <= 1 THEN 0
    ELSE PayloadBefore(k - 1, st)
         + (IF st \in DOMAIN objects[k - 1].segs
            THEN Len(objects[k - 1].segs[st].bytes) ELSE 0)

\* The entry point that the first n inputs give the output.
InputEntry(n) ==
    LET carriers == {k \in 1..n : objects[k].entry # None}
    IN IF carriers = {} THEN None
       ELSE LET k == CHOOSE c \in carriers : \A d \in carriers : c <= d
                e == objects[k].entry[1]
                st == e.segment_type
            IN Some(Entry(st, (e.offset - objects[k].segs[st].start)
                                + segs_out[st].start + PayloadBefore(k, st)))

\* What -E asks for, when it can be had.
Override ==
    LET arg == set_entry[1]
    IN IF strip_prefix_0x(arg) # None
       THEN Entry("Zero", from_str_radix(strip_prefix_0x(arg)[1])[1])
       ELSE LET sym == OutObj.symbols[global_symbols[arg]]
            IN Entry(sym.segment_type, sym.location)

\* C5: without -E the entry point is that of the first input that carries
\* one, rebased to the place where that input's payload is inserted, and no
\* later input changes it; with no carrier there is none; with -E the
\* overriding value takes its place.
C5_EntryFromFirstCarrier ==
    /\ (pc = "merge" /\ result = "running") => entry_point = InputEntry(i - 1)
    /\ (pc = "entry") => entry_point = InputEntry(Len(objects))
    /\ (Written /\ set_entry = None) => OutObj.entry = InputEntry(Len(objects))
    /\ (Written /\ set_entry # None) => OutObj.entry = Some(Override)

\* The second input is the first carrier, the third carries one as well.
C5_Witness ==
    /\ Written /\ set_entry = None
    /\ objects = <<Callee, Caller, Local>>
    /\ OutObj.entry = Some(Entry("Text", 260))

\* C6: with -E in executable mode, 0xHHHH gives the entry (Zero, HHHH); any
\* other argument gives the segment and location that the global of that
\* name has in the merged table; a name that is not in the global map fails
\* the link and no file is written.
C6_EntryOverride ==
    (Finished /\ executable /\ set_entry # None) =>
        LET arg == set_entry[1]
        IN IF strip_prefix_0x(arg) # None
           THEN Written =>
                   /\ from_str_radix(strip_prefix_0x(arg)[1]) # None
                   /\ OutObj.entry = Some(Entry("Zero", from_str_radix(strip_prefix_0x(arg)[1])[1]))
           ELSE IF \E k \in 1..Len(symbols_out) :
                      symbols_out[k].is_global /\ symbols_out[k].name = arg
           THEN Written =>
                   \E k \in 1..Len(OutObj.symbols) :
                      /\ OutObj.symbols[k].is_global /\ OutObj.symbols[k].name = arg
                      /\ OutObj.entry = Some(Entry(OutObj.symbols[k].segment_type,
                                                   OutObj.symbols[k].location))
           ELSE result # "Ok" /\ out_file = None

\* -E names a global that the second input defines.
C6_Witness ==
    /\ Written /\ executable
    /\ set_entry = Some(main)
    /\ objects = <<Callee, Local>>
    /\ OutObj.entry = Some(Entry("Text", 258))

-----------------------------------------------------------------------------
(* C7: the entry point of an executable *)

\* C7: an executable is written only if the final entry point exists and its
\* segment type is not Unknown; with no such entry point, and nothing else
\* wrong, the link ends with NoEntryPoint.
C7_ExecutableEntryIsKnown ==
    /\ (Written /\ executable) =>
          (OutObj.entry # None /\ OutObj.entry[1].segment_type # Unknown)
    /\ (Finished /\ executable /\ ~failure /\ result # "InvalidEntryPointFormat"
          /\ (entry_point = None \/ entry_point[1].segment_type = Unknown))
          => result = "NoEntryPoint"

-----------------------------------------------------------------------------
(* C8: associativity *)

AssocAllLinked ==
    /\ assoc.pc = "run"
    /\ assoc.ab # None /\ assoc.bc # None /\ assoc.left # None /\ assoc.right # None
    /\ assoc.ab[1].result = "Ok" /\ assoc.bc[1].result = "Ok"
    /\ assoc.left[1].result = "Ok" /\ assoc.right[1].result = "Ok"

SymKey(sym) == <<sym.segment_type, sym.location>>

Occurrences(seq, e) == Cardinality({k \in 1..Len(seq) : seq[k] = e})

\* t is s with entries of equal (segment, location) reordered among themselves.
SameUpToEqualKeys(s, t) ==
    /\ Len(s) = Len(t)
    /\ \A k \in 1..Len(s) : SymKey(s[k]) = SymKey(t[k])
    /\ \A k \in 1..Len(s) : Occurrences(s, s[k]) = Occurrences(t, s[k])

\* C8: for three objects whose links all succeed, the relocatable links
\* (A B) C and A (B C) have the same segment bases and payloads, the same
\* relocation table, and the same symbol table up to the order of entries
\* with equal (segment, location).
C8_LinkIsAssociative ==
    AssocAllLinked =>
        LET l == assoc.left[1].file[1].obj
            r == assoc.right[1].file[1].obj
        IN /\ l.segs = r.segs
           /\ l.relocation_table = r.relocation_table
           /\ SameUpToEqualKeys(l.symbols, r.symbols)

\* The first object refers to a global that the second defines, the third
\* brings its own symbols.
C8_Witness ==
    /\ AssocAllLinked
    /\ assoc.objs = <<Caller, Callee, Local>>
    /\ Len(assoc.left[1].file[1].obj.symbols) = 4
    /\ Len(assoc.left[1].file[1].obj.relocation_table) = 3

-----------------------------------------------------------------------------
(* C9: the link of one object *)

\* An object as the assembler makes it: content segments only, every
\* relocation within a segment the object has and naming a symbol of its
\* table, every location within its segment, no global name twice.
IsWellFormed(o) ==
    /\ DOMAIN o.segs \subseteq {"Text", "RoData", "Data", "Bss"}
    /\ \A k \in 1..Len(o.relocation_table) :
          LET r == o.relocation_table[k]
          IN /\ r.reference_segment \in DOMAIN o.segs
             /\ r.symbol_index \in 1..Len(o.symbols)
             /\ r.reference_location >= o.segs[r.reference_segment].start
             /\ r.reference_location - o.segs[r.reference_segment].start + 2
                   <= Len(o.segs[r.reference_segment].bytes)
    /\ \A k \in 1..Len(o.symbols) :
          LET y == o.symbols[k]
          IN /\ y.segment_type = Unknown \/ y.segment_type \in DOMAIN o.segs
             /\ y.segment_type # Unknown => y.location >= o.segs[y.segment_type].start
             /\ \A j \in 1..Len(o.symbols) :
                   (j # k /\ y.is_global /\ o.symbols[j].is_global)
                       => o.symbols[j].name # y.name
    /\ o.entry # None =>
          /\ o.entry[1].segment_type \in DOMAIN o.segs
          /\ o.entry[1].offset >= o.segs[o.entry[1].segment_type].start

\* By how much the single link moves segment st of the input o.
Shift(o, out, st) ==
    IF st \in DOMAIN o.segs THEN out.segs[st].start - o.segs[st].start ELSE 0

\* The offsets (from 0) in segment st of o that lie in a relocation slot.
SlotOffsets(o, st) ==
    UNION {{o.relocation_table[k].reference_location - o.segs[st].start,
            o.relocation_table[k].reference_location - o.segs[st].start + 1} :
           k \in {j \in 1..Len(o.relocation_table) :
                     o.relocation_table[j].reference_segment = st}}

SameModuloBases(o, out) ==
    /\ DOMAIN out.segs = DOMAIN o.segs
    /\ \A st \in DOMAIN o.segs :
          /\ Len(out.segs[st].bytes) = Len(o.segs[st].bytes)
          /\ \A b \in 1..Len(o.segs[st].bytes) :
                (b - 1) \notin SlotOffsets(o, st)
                    => out.segs[st].bytes[b] = o.segs[st].bytes[b]
    /\ Len(out.symbols) = Len(o.symbols)
    /\ \A k \in 1..Len(o.symbols) :
          /\ out.symbols[k].name = o.symbols[k].name
          /\ out.symbols[k].segment_type = o.symbols[k].segment_type
          /\ out.symbols[k].is_global = o.symbols[k].is_global
          /\ out.symbols[k].location
                = o.symbols[k].location + Shift(o, out, o.symbols[k].segment_type)
    /\ Len(out.relocation_table) = Len(o.relocation_table)
    /\ \A k \in 1..Len(o.relocation_table) :
          LET r == o.relocation_table[k]
              q == out.relocation_table[k]
          IN /\ q.reference_segment = r.reference_segment
             /\ q.symbol_index = r.symbol_index
             /\ q.reference_location
                   = r.reference_location + Shift(o, out, r.reference_segment)
             /\ Slot(out, q) = LittleEndian(out.symbols[q.symbol_index].location)
    /\ (out.entry = None) <=> (o.entry = None)
    /\ o.entry # None =>
          /\ out.entry[1].segment_type = o.entry[1].segment_type
          /\ out.entry[1].offset
                = o.entry[1].offset + Shift(o, out, o.entry[1].segment_type)

\* C9: the link of a single well-formed object with no flags succeeds and
\* gives the input back modulo segment bases: same payload lengths and bytes
\* outside relocation slots, same symbols and relocations in the same order,
\* every location shifted by (output base - input base) of its segment, each
\* relocation slot holding the shifted address of its symbol.
C9_SingleLinkIsIdentity ==
    (Finished /\ Len(objects) = 1 /\ IsWellFormed(objects[1])
        /\ ~executable /\ ~strip_internal /\ set_entry = None)
    => (Written /\ SameModuloBases(objects[1], OutObj))

\* One object whose two segments both move.
C9_Witness ==
    /\ Written /\ objects = <<Local>>
    /\ ~executable /\ ~strip_internal /\ set_entry = None
    /\ Shift(Local, OutObj, "Text") = 0
    /\ Shift(Local, OutObj, "Data") = 512

-----------------------------------------------------------------------------
(* C10: -S *)

\* The run on the same inputs and flags, but for -S.
Unstripped == link(objects, executable, FALSE, set_entry)

SameButInternalNames(x, y) ==
    /\ x.segs = y.segs
    /\ x.relocation_table = y.relocation_table
    /\ x.entry = y.entry
    /\ Len(x.symbols) = Len(y.symbols)
    /\ \A k \in 1..Len(x.symbols) :
          /\ x.symbols[k].segment_type = y.symbols[k].segment_type
          /\ x.symbols[k].location = y.symbols[k].location
          /\ x.symbols[k].is_global = y.symbols[k].is_global
          /\ x.symbols[k].is_global => x.symbols[k].name = y.symbols[k].name
          /\ ~x.symbols[k].is_global => x.symbols[k].name = <<>>

\* C10: -S changes nothing but the names of the symbols that are not global:
\* the link with -S ends as the link without it, and if they succeed the two
\* outputs have the same segments, relocation table and entry point, symbol
\* tables of the same length and order with the same segment, location and
\* is_global, the same names for the globals, and with -S the empty name for
\* every other symbol.
C10_StripChangesInternalNamesOnly ==
    (pc = "done" /\ strip_internal) =>
        /\ result = Unstripped.result
        /\ (out_file = None) <=> (Unstripped.file = None)
        /\ Written =>
              /\ out_file[1].shebang = Unstripped.file[1].shebang
              /\ SameButInternalNames(OutObj, Unstripped.file[1].obj)

\* Two inputs with an internal symbol each, both referred to by relocations.
C10_Witness ==
    /\ Written /\ strip_internal
    /\ objects = <<Table, Local>>
    /\ \E k \in 1..Len(Unstripped.file[1].obj.symbols) :
          /\ Unstripped.file[1].obj.symbols[k].name = tmp
          /\ OutObj.symbols[k].name = <<>>
          /\ \E j \in 1..Len(OutObj.relocation_table) :
                OutObj.relocation_table[j].symbol_index = k

\* Input k is the first input with a relocation whose reference_segment is not
\* among its own segments; every input before it is well formed.
FirstMissingSegment(k) ==
    /\ k \in 1..Len(objects)
    /\ \A j \in 1..(k - 1) : IsWellFormed(objects[j])
    /\ \E n \in 1..Len(objects[k].relocation_table) :
          LET r == objects[k].relocation_table[n]
          IN /\ r.reference_segment \notin DOMAIN objects[k].segs
             /\ r.symbol_index \in 1..Len(objects[k].symbols)
    /\ objects[k].entry = None

\* C11: when an input has a relocation whose reference_segment is not among
\* that input's segments, the run ends at that input with the error value
\* ReferenceToNonExistantSegment and without an output file, not with a panic.
C11_MissingSegmentIsAnError ==
    \A k \in 1..Len(objects) :
        (FirstMissingSegment(k) /\ i > k) =>
            /\ pc = "done"
            /\ result = "ReferenceToNonExistantSegment"
            /\ out_file = None

-----------------------------------------------------------------------------
(* C18: symbol rebasing *)

\* The inputs 1..MergedInputs have gone through the merge loop.
MergedInputs == IF pc = "layout" \/ result = "panic" THEN 0 ELSE i - 1

\* Where the byte that y addresses in input k lies in the output: its offset
\* in the input's payload of its segment, behind the final base of the output
\* segment and the payloads of that segment that the inputs before k gave.
RebasedLocation(k, y) ==
    (y.location - objects[k].segs[y.segment_type].start)
        + segs_out[y.segment_type].start + PayloadBefore(k, y.segment_type)

\* Symbol s of input k is a definition in a segment of that input, and not a
\* second definition of a global name (which gets no entry of its own).
RebasedSymbol(k, s) ==
    LET y == objects[k].symbols[s]
    IN /\ y.segment_type # Unknown
       /\ y.segment_type \in DOMAIN objects[k].segs
       /\ <<k, s>> \notin Collisions

\* C18: a symbol of input k that lies in a segment of that input has, in the
\* merged table, the location (input location - input base) + final output
\* base + payload of that segment given by the inputs before k; a symbol
\* whose segment is Unknown, and that is Unknown in the merged table, keeps
\* its location.  Checked through the translation array of the input merged
\* last and, for globals, through global_symbols for every merged input.
C18_SymbolsRebased ==
    /\ (pc = "merge" /\ MergedInputs >= 1) =>
          LET k == MergedInputs
          IN \A s \in 1..Len(objects[k].symbols) :
                LET y == objects[k].symbols[s]
                    e == symbols_out[file_symbol_to_out_symbol[s]]
                IN /\ RebasedSymbol(k, s) =>
                         /\ e.segment_type = y.segment_type
                         /\ e.location = RebasedLocation(k, y)
                   /\ (y.segment_type = Unknown /\ e.segment_type = Unknown) =>
                         e.location = y.location
    /\ \A k \in 1..MergedInputs : \A s \in 1..Len(objects[k].symbols) :
          LET y == objects[k].symbols[s]
          IN (RebasedSymbol(k, s) /\ y.is_global) =>
                LET e == symbols_out[global_symbols[y.name]]
                IN /\ e.segment_type = y.segment_type
                   /\ e.location = RebasedLocation(k, y)

\* The second input has just been merged; one of its symbols lies in a
\* segment to which the first input gave payload and whose output base is
\* not the input's base, and another of its symbols is Unknown.
C18_Witness ==
    /\ pc = "merge" /\ MergedInputs = 2
    /\ \E s \in 1..Len(objects[2].symbols) :
          LET y == objects[2].symbols[s]
          IN /\ RebasedSymbol(2, s)
             /\ PayloadBefore(2, y.segment_type) > 0
             /\ objects[2].segs[y.segment_type].start # segs_out[y.segment_type].start
             /\ symbols_out[file_symbol_to_out_symbol[s]].location
                   = RebasedLocation(2, y)
    /\ \E s \in 1..Len(objects[2].symbols) :
          objects[2].symbols[s].segment_type = Unknown

-----------------------------------------------------------------------------
(* C19: unification of the global symbols *)

InputSymbols(n) ==
    UNION {{objects[k].symbols[s] : s \in 1..Len(objects[k].symbols)} : k \in 1..n}

GlobalNames(n) == {y.name : y \in {z \in InputSymbols(n) : z.is_global}}

RECURSIVE NonGlobalCount(_)
NonGlobalCount(n) ==
    IF n = 0 THEN 0
    ELSE NonGlobalCount(n - 1)
         + Cardinality({s \in 1..Len(objects[n].symbols) :
                           ~objects[n].symbols[s].is_global})

GlobalEntries(name) ==
    {j \in 1..Len(symbols_out) :
        symbols_out[j].is_global /\ symbols_out[j].name = name}

\* C19: after any number of inputs has been merged, the merged table has one
\* entry per distinct global name and one more per non-global symbol of each
\* input; a global entry is not Unknown exactly if some merged input defines
\* the name, in whichever order; and the translation array of the input
\* merged last sends every symbol to an entry of the merged table: a global
\* to the entry of its name, a non-global to an entry of its own.
C19_GlobalsUnified ==
    (MergedInputs >= 1) =>
        LET n == MergedInputs
        IN /\ \A name \in GlobalNames(n) : Cardinality(GlobalEntries(name)) = 1
           /\ Len(symbols_out) = Cardinality(GlobalNames(n)) + NonGlobalCount(n)
           /\ \A j \in 1..Len(symbols_out) :
                 symbols_out[j].is_global =>
                    /\ symbols_out[j].name \in GlobalNames(n)
                    /\ global_symbols[symbols_out[j].name] = j
                    /\ (symbols_out[j].segment_type # Unknown)
                         <=> (\E y \in InputSymbols(n) :
                                 /\ y.is_global /\ y.name = symbols_out[j].name
                                 /\ y.segment_type # Unknown)
           /\ pc = "merge" =>
                 /\ Len(file_symbol_to_out_symbol) = Len(objects[n].symbols)
                 /\ \A s \in 1..Len(objects[n].symbols) :
                       LET y == objects[n].symbols[s]
                           t == file_symbol_to_out_symbol[s]
                       IN /\ t \in 1..Len(symbols_out)
                          /\ symbols_out[t].is_global = y.is_global
                          /\ y.is_global => symbols_out[t].name = y.name
                          /\ ~y.is_global =>
                                /\ symbols_out[t].name
                                      = (IF strip_internal THEN <<>> ELSE y.name)
                                /\ symbols_out[t].segment_type = y.segment_type
                                /\ \A u \in 1..Len(objects[n].symbols) :
                                      u # s => file_symbol_to_out_symbol[u] # t

\* Three inputs merged: the first only refers to a global that a later input
\* defines, the entry of that name is defined, and the merged table is
\* shorter than the inputs' tables together.
C19_Witness ==
    /\ pc = "merge" /\ MergedInputs = 3
    /\ \E j \in 1..Len(symbols_out) :
          /\ symbols_out[j].is_global /\ symbols_out[j].segment_type # Unknown
          /\ \E s \in 1..Len(objects[1].symbols) :
                /\ objects[1].symbols[s].name = symbols_out[j].name
                /\ objects[1].symbols[s].is_global
                /\ objects[1].symbols[s].segment_type = Unknown
    /\ Len(symbols_out) < Len(objects[1].symbols) + Len(objects[2].symbols)
                             + Len(objects[3].symbols)

-----------------------------------------------------------------------------
(* C12, C13, C14: the BigR encodings *)

\* The operand that the instruction's BigR or immediate is parsed from.
EncLast == enc.ops[Len(enc.ops)]

ByteShapes == {"ByteBigR", "TwoByteOneBig"}

WideShapes == {"WideBigR", "TwoWideOneBig"}

\* The encoded BigR: the last byte, or the last two bytes little-endian.
ByteField == enc.mem[Len(enc.mem)]

WideField == enc.mem[Len(enc.mem) - 1] + 256 * enc.mem[Len(enc.mem)]

\* C12: in byte form, push of the byte immediate n gives the byte n + 7 for
\* every n in 1..247, and fails for every n in 248..255.
C12_ByteImmediateRange ==
    (enc.ins = "push" /\ EncLast.kind = "Byte" /\ enc.pc \in {"done", "panic"}) =>
        /\ EncLast.n \in 1..247 =>
              enc.pc = "done" /\ enc.opcode = "PUSH_B" /\ enc.mem = <<EncLast.n + 7>>
        /\ EncLast.n >= 248 => enc.pc = "panic"

\* Decoding by magnitude.
Decode(x) == IF x <= 7 THEN <<"Register", x>> ELSE <<"Immediate", x - 7>>

\* What a BigR of the parsed operand stands for: a register, or an immediate
\* (a label stands for its offset), the immediate 0 being the zero register.
Meant(big) ==
    LET n == IF big.tag = "Label" THEN enc.id_to_pos[big.v] ELSE big.v
    IN IF big.tag = "Register" THEN <<"Register", big.v>>
       ELSE IF n = 0 THEN <<"Register", 0>>
       ELSE <<"Immediate", n>>

\* C13: whenever a BigR is encoded, in byte or in wide form, decoding the
\* field by magnitude gives back what was encoded: a register is its index
\* 0..7, the immediate 0 is the zero register, a non-zero immediate n is
\* n + 7 >= 8; so no register and non-zero immediate share an encoding.
C13_BigRRoundTrip ==
    (enc.pc = "done" /\ enc.dat_op.shape \in ByteShapes \cup WideShapes) =>
        LET x == IF enc.dat_op.shape \in ByteShapes THEN ByteField ELSE WideField
            m == Meant(enc.dat_op.big)
        IN /\ Decode(x) = m
           /\ m[1] = "Register" => x = m[2] /\ x \in 0..7
           /\ m[1] = "Immediate" => x = m[2] + 7 /\ x >= 8

\* A label whose offset is the largest that the wide form encodes.
C13_Witness ==
    /\ enc.pc = "done"
    /\ enc.dat_op.shape = "WideBigR"
    /\ enc.dat_op.big.tag = "Label"
    /\ WideField = M16 - 1
    /\ Decode(WideField) = <<"Immediate", enc.id_to_pos[1]>>

\* C14: a plain number that does not fit its field is fatal: when an
\* instruction whose last operand is the plain number n has been assembled, n
\* is in 0..247 if the field is a byte BigR or a byte immediate and in
\* 0..65527 if it is a wide BigR.
C14_NumbersOutOfRangeAreFatal ==
    (enc.pc = "done" /\ EncLast.kind = "Number") =>
        /\ enc.dat_op.shape \in ByteShapes \cup {"ImmediateByte"} =>
              EncLast.n \in 0..247
        /\ enc.dat_op.shape \in WideShapes => EncLast.n \in 0..65527

-----------------------------------------------------------------------------
(* C15, C16, C17, C20: offsets and labels of a compilation unit *)

\* The name under which the unit that includes `path` knows the label `name`
\* of that file.
Imported(path, name) ==
    IF name[1] \in Uppercase THEN name ELSE path \o <<" ", " ">> \o name

\* The name of a label of a file in the top-level unit; stack: the paths of
\* the include directives that lead to the file, the innermost first.
RECURSIVE FinalName(_, _)
FinalName(name, stack) ==
    IF stack = <<>> THEN name
    ELSE FinalName(Imported(Head(stack), name), Tail(stack))

\* The source of a unit read in order, included files in place of their
\* include directives: the label definitions (with their final names) and the
\* lines that give a data-line.
RECURSIVE Events(_, _)
Events(lines, stack) ==
    IF lines = <<>> THEN <<>>
    ELSE LET l == Head(lines)
             rest == Events(Tail(lines), stack)
         IN CASE l.kind = "Label" ->
                    <<[kind |-> "label", name |-> FinalName(l.name, stack),
                       line |-> l, stack |-> stack]>> \o rest
              [] l.kind = "DirInclude" ->
                    (IF l.name \in DOMAIN Files
                     THEN Events(Files[l.name], <<l.name>> \o stack) ELSE <<>>) \o rest
              [] l.kind = "Comment" -> rest
              [] OTHER ->
                    <<[kind |-> "data", name |-> <<>>, line |-> l, stack |-> stack]>>
                        \o rest

Ev == Events(asm.lines, <<>>)

IsData(e) == e.kind = "data"

DataEvents(ev) == SelectSeq(ev, IsData)

\* The number of data-lines that come before event j.
DataBefore(ev, j) == Cardinality({n \in 1..(j - 1) : ev[n].kind = "data"})

\* The encoded sizes of the operand shapes, as the design document lists them.
ShapeTable ==
    [Nothing |-> 0, ByteBigR |-> 1, ByteRegister |-> 1, WideRegister |-> 1,
     ImmediateByte |-> 1, WideBigR |-> 2, ImmediateWide |-> 2, TwoByteOneBig |-> 2,
     FourByte |-> 2, FourWide |-> 2, TwoWideOneBig |-> 3, WideBigWide |-> 3,
     ByteWideBig |-> 3, WideBigByte |-> 3]

\* The bytes that a data-line stands for: 1 + the size of its shape, or its
\* raw length.
LineBytes(dl) ==
    IF dl.kind = "Ins" THEN 1 + ShapeTable[dl.dat_op.shape] ELSE Len(dl.raw)

RECURSIVE BytesOf(_)
BytesOf(d) == IF d = 0 THEN 0 ELSE BytesOf(d - 1) + LineBytes(asm.data_lines[d])

Pass1Done == asm.pc \in {"encode", "done"}

LabelId(name) == CHOOSE id \in 1..Len(asm.labels) : asm.labels[id] = name

\* Event j is a label definition that no later line of the unit repeats.
LastDefinition(ev, j) ==
    /\ ev[j].kind = "label"
    /\ \A n \in (j + 1)..Len(ev) : ~(ev[n].kind = "label" /\ ev[n].name = ev[j].name)

\* C15: pass 2 appends 1 + size() bytes for every instruction and the raw
\* length for every directive, size() is the size of the shape in the table,
\* and so the offset that pass 1 gave a label is the number of bytes that
\* pass 2 emits for the data-lines before the label (offsets are 16-bit).
C15_OffsetAccounting ==
    Pass1Done =>
        /\ \A k \in 1..Len(asm.ends) :
              LET dl == asm.data_lines[k]
                  prev == IF k = 1 THEN 0 ELSE asm.ends[k - 1]
              IN /\ dl.kind = "Ins" =>
                       /\ asm.ends[k] - prev = 1 + size(dl.dat_op)
                       /\ size(dl.dat_op) = ShapeTable[dl.dat_op.shape]
                 /\ dl.kind = "Raw" => asm.ends[k] - prev = Len(dl.raw)
        /\ asm.pc = "done" =>
              LET ev == Ev
              IN \A j \in 1..Len(ev) :
                    LastDefinition(ev, j) =>
                       /\ \E id \in 1..Len(asm.labels) : asm.labels[id] = ev[j].name
                       /\ asm.id_to_pos[LabelId(ev[j].name)]
                             = (IF DataBefore(ev, j) = 0 THEN 0
                                ELSE asm.ends[DataBefore(ev, j)]) % M16

\* A label behind a three-byte operand and another data-line.
C15_Witness ==
    /\ asm.pc = "done"
    /\ Len(asm.data_lines) >= 2
    /\ \E k \in 1..Len(asm.data_lines) :
          asm.data_lines[k].kind = "Ins" /\ size(asm.data_lines[k].dat_op) = 3
    /\ Ev # <<>>
    /\ Ev[Len(Ev)].kind = "label"
    /\ asm.id_to_pos[LabelId(Ev[Len(Ev)].name)] = Len(asm.mem)
    /\ Len(asm.mem) >= 5

\* The label defined at event j, which comes from an included file, is in
\* the unit's table under its namespaced name, with the offset of the bytes
\* before it.
ImportedAt(ev, j) ==
    /\ \E id \in 1..Len(asm.labels) : asm.labels[id] = ev[j].name
    /\ asm.id_to_pos[LabelId(ev[j].name)] = BytesOf(DataBefore(ev, j)) % M16

\* C16 as amended: after pass 1, every label that an included file defines
\* is in the including unit's table under "path  name", or under its own name
\* if that begins with an uppercase letter, and its offset is the unit's
\* offset at the include line plus the label's offset inside the file;
\* unless a later line of the unit defines the same name again.
C16_ImportedLabels ==
    Pass1Done =>
        LET ev == Ev
        IN \A j \in 1..Len(ev) :
              (ev[j].kind = "label" /\ ev[j].stack # <<>> /\ LastDefinition(ev, j))
                  => ImportedAt(ev, j)

\* C16 as stated: the same for every label of an included file.
C16_ImportedLabelsAlways ==
    Pass1Done =>
        LET ev == Ev
        IN \A j \in 1..Len(ev) :
              (ev[j].kind = "label" /\ ev[j].stack # <<>>) => ImportedAt(ev, j)

\* l.t included behind a line of two bytes or more: its label tmp is known
\* as "l.t  tmp", its label Pub as Pub, at different offsets above 0.
C16_Witness ==
    /\ Pass1Done
    /\ \E p \in 2..Len(asm.lines) : asm.lines[p] = DirInclude(lib_t)
    /\ \E a \in 1..Len(asm.labels), b \in 1..Len(asm.labels) :
          /\ asm.labels[a] = <<"l", ".", "t", " ", " ", "t", "m", "p">>
          /\ asm.labels[b] = lbl_Pub
          /\ asm.id_to_pos[a] >= 2
          /\ asm.id_to_pos[b] = asm.id_to_pos[a] + 3

\* The label that the line of a data event refers to, or None.
LabelOperand(e) ==
    IF \E n \in 1..Len(e.line.ops) : e.line.ops[n].kind = "Label"
    THEN Some((CHOOSE n \in 1..Len(e.line.ops) : e.line.ops[n].kind = "Label"))
    ELSE None

\* Some line of the unit, in the top-level file or in an included one,
\* refers to a label that no line of the unit defines.
Dangling ==
    LET ev == Ev
    IN \E j \in 1..Len(ev) :
          /\ ev[j].kind = "data" /\ LabelOperand(ev[j]) # None
          /\ \A n \in 1..Len(ev) :
                ev[n].kind = "label" =>
                   ev[n].name # FinalName(ev[j].line.ops[LabelOperand(ev[j])[1]].lbl,
                                          ev[j].stack)

\* C17: a unit that refers to a label it does not define is assembled all
\* the same, in the top-level file and in an included one: neither pass
\* stops, and the two bytes of every field that holds a label without an
\* offset are zero.
C17_UndefinedLabelsAreExternal ==
    Dangling =>
        /\ asm.pc # "panic"
        /\ asm.pc = "done" =>
              \A k \in 1..Len(asm.data_lines) :
                 LET big == asm.data_lines[k].dat_op.big
                 IN (big.tag = "Label" /\ big.v \notin DOMAIN asm.id_to_pos) =>
                       /\ big.v \in 1..Len(asm.labels)
                       /\ asm.mem[asm.ends[k] - 1] = 0
                       /\ asm.mem[asm.ends[k]] = 0

\* C20: after pass 1, the label id in every data-line is the id of the name
\* written in its source line (namespaced if the line is in an included
\* file) in the returned id-to-name table.
C20_LabelIdsNameTheirLabels ==
    Pass1Done =>
        /\ Len(DataEvents(Ev)) = Len(asm.data_lines)
        /\ \A d \in 1..Len(asm.data_lines) :
              LET e == DataEvents(Ev)[d]
                  big == asm.data_lines[d].dat_op.big
              IN LabelOperand(e) # None =>
                    /\ big.tag = "Label"
                    /\ big.v \in 1..Len(asm.labels)
                    /\ asm.labels[big.v]
                          = FinalName(e.line.ops[LabelOperand(e)[1]].lbl, e.stack)

-----------------------------------------------------------------------------
(* C21: every segment of every input has an output segment *)

\* Input o without its Zero segment.
NoZero(o) == [o EXCEPT !.segs = [st \in (DOMAIN o.segs) \ {"Zero"} |-> o.segs[st]]]

\* Every input is well formed, a Zero segment apart.
InputsWellFormedButZero == \A k \in 1..Len(objects) : IsWellFormed(NoZero(objects[k]))

RECURSIVE InputPayloads(_, _)
\* The payloads of type st of the inputs 1..n, one behind the other.
InputPayloads(n, st) ==
    IF n = 0 THEN <<>>
    ELSE InputPayloads(n - 1, st)
         \o (IF st \in DOMAIN objects[n].segs THEN objects[n].segs[st].bytes ELSE <<>>)

\* The positions (from 1) in the output payload of type st that a relocation
\* of the output addresses: the two bytes that the merge patches.
RelocationSlots(st) ==
    UNION {LET p == Sub16(reloc_out[j].reference_location, segs_out[st].start)
           IN {p + 1, p + 2} :
           j \in {n \in 1..Len(reloc_out) : reloc_out[n].reference_segment = st}}

\* C21: for every segment type that occurs in an input, Zero included, the
\* layout makes an output segment of that type; so the lookup of the byte
\* concatenation ("segment guaranteed to exist") succeeds for every segment of
\* every input, and after the merge of the inputs 1..n the output payload of
\* each type is the payloads of that type of the inputs 1..n in input order
\* (the patched relocation slots apart).
C21_EverySegmentHasAnOutput ==
    (pc # "layout" /\ InputsWellFormedButZero) =>
        /\ \A k \in 1..Len(objects) : DOMAIN objects[k].segs \subseteq DOMAIN segs_out
        /\ result # "panic"
        /\ pc = "merge" =>
              \A st \in DOMAIN segs_out :
                 LET want == InputPayloads(i - 1, st)
                     have == segs_out[st].bytes
                 IN /\ Len(have) = Len(want)
                    /\ \A p \in (1..Len(have)) \ RelocationSlots(st) : have[p] = want[p]

====
